---- MODULE Spec2Model ----
(***************************************************************************)
(* Model of the CSV parser (CSVParser / Config / CSVReader).               *)
(*                                                                         *)
(* A string is a sequence of one-character strings, so that splitting,     *)
(* trimming, concatenation and number parsing are computed character by    *)
(* character as the code computes them.  A mapping (Record<string, any>)   *)
(* is a function whose domain is a set of such strings.                    *)
(***************************************************************************)
EXTENDS Integers, Sequences, FiniteSets, TLC

VARIABLES
  alive,                  \* TRUE iff the constructor returned a parser
  config,                 \* this.config (columnNames is rewritten by parseCSV / reset)
  gotColumnNames,         \* this.gotColumnNames
  gotInitialColumnNames,  \* this.gotInitialColumnNames
  remainingSkipRows,      \* this.remainingSkipRows
  remainingHeaderRows,    \* this.remainingHeaderRows
  remainingMetadataRows,  \* this.remainingMetadataRows
  metadataTags,           \* this.metadataTags
  metadataSeparatorList,  \* this.metadataSeparatorList
  timeFunc,               \* this.timeFunc (identity of the installed clock)
  last,                   \* observation of the last call: operation, input, outcome
  cycle,                  \* observation of the current reset cycle (rows consumed since reset)
  scenario,               \* the constructor options and the lines the caller draws chunks from
  stream,                 \* line-by-line feeding of one text (streaming specification)
  heap                    \* the objects two parser instances refer to (sharing specification)

vars == <<alive, config, gotColumnNames, gotInitialColumnNames, remainingSkipRows,
          remainingHeaderRows, remainingMetadataRows, metadataTags,
          metadataSeparatorList, timeFunc, last, cycle, scenario, stream, heap>>

-----------------------------------------------------------------------------
(* Strings                                                                 *)

NL == "\n"
CR == "\r"
SP == " "

Digits == <<"0", "1", "2", "3", "4", "5", "6", "7", "8", "9">>
DigitChars == {Digits[i] : i \in 1..10}
DigitVal(c) == (CHOOSE i \in 1..10 : Digits[i] = c) - 1

ToSet(s) == {s[i] : i \in 1..Len(s)}

Drop(s, k) == IF k >= Len(s) THEN <<>> ELSE SubSeq(s, k + 1, Len(s))

\* s has needle at position i
HasAt(s, needle, i) ==
  /\ i + Len(needle) - 1 <= Len(s)
  /\ \A j \in 1..Len(needle) : s[i + j - 1] = needle[j]

\* position of the first occurrence of needle in s at or after i, 0 if none
RECURSIVE IndexOf(_, _, _)
IndexOf(s, needle, i) ==
  IF i + Len(needle) - 1 > Len(s) THEN 0
  ELSE IF HasAt(s, needle, i) THEN i
  ELSE IndexOf(s, needle, i + 1)

\* String.prototype.split(separator) for a non-empty separator
RECURSIVE Split(_, _)
Split(s, sep) ==
  LET k == IndexOf(s, sep, 1) IN
  IF k = 0 THEN <<s>>
  ELSE <<SubSeq(s, 1, k - 1)>> \o Split(Drop(s, k + Len(sep) - 1), sep)

\* Array.prototype.join(separator)
RECURSIVE Join(_, _)
Join(parts, sep) ==
  IF parts = <<>> THEN <<>>
  ELSE IF Len(parts) = 1 THEN parts[1]
  ELSE parts[1] \o sep \o Join(Tail(parts), sep)

RECURSIVE trimLeft(_, _)
trimLeft(s, cutset) ==
  IF s # <<>> /\ s[1] \in ToSet(cutset) THEN trimLeft(Tail(s), cutset) ELSE s

RECURSIVE trimRight(_, _)
trimRight(s, cutset) ==
  IF s # <<>> /\ s[Len(s)] \in ToSet(cutset)
  THEN trimRight(SubSeq(s, 1, Len(s) - 1), cutset) ELSE s

trim(s, cutset) == trimRight(trimLeft(s, cutset), cutset)

-----------------------------------------------------------------------------
(* Mappings                                                                *)

EmptyMap == [k \in {} |-> <<>>]
Put(m, k, v) == [x \in (DOMAIN m) \cup {k} |-> IF x = k THEN v ELSE m[x]]
Del(m, k) == [x \in (DOMAIN m) \ {k} |-> m[x]]
\* for (const k in src) dst[k] = src[k]
Merge(dst, src) ==
  [x \in (DOMAIN dst) \cup (DOMAIN src) |-> IF x \in DOMAIN src THEN src[x] ELSE dst[x]]

\* the element of a one-element set: Only({F(x) : x \in {e}}) is F(e) with e computed once
Only(S) == CHOOSE x \in S : TRUE

-----------------------------------------------------------------------------
(* Values stored in fields.  A number is the decimal m / 10^s in lowest    *)
(* scale (JavaScript has one number type); NaN is the failed conversion.   *)

NaN == [type |-> "NaN"]
Undefined == [type |-> "undefined"]
Bool(b) == [type |-> "boolean", b |-> b]
Str(s) == [type |-> "string", s |-> s]

RECURSIVE Normalize(_, _)
Normalize(m, s) ==
  IF s > 0 /\ m % 10 = 0 THEN Normalize(m \div 10, s - 1)
  ELSE [type |-> "number", m |-> m, s |-> s]

AllDigits(s) == \A i \in 1..Len(s) : s[i] \in DigitChars

RECURSIVE DigitsVal(_)
DigitsVal(s) ==
  IF s = <<>> THEN 0
  ELSE DigitsVal(SubSeq(s, 1, Len(s) - 1)) * 10 + DigitVal(s[Len(s)])

RECURSIVE LeadingDigits(_)
LeadingDigits(s) ==
  IF s # <<>> /\ s[1] \in DigitChars THEN <<s[1]>> \o LeadingDigits(Tail(s)) ELSE <<>>

Negate(v) == IF v = NaN THEN NaN ELSE [v EXCEPT !.m = 0 - @]

\* StrUnsignedDecimalLiteral without exponent: digits, digits.digits, digits., .digits
DecimalLiteral(s) ==
  LET k == IndexOf(s, <<".">>, 1)
      ip == IF k = 0 THEN s ELSE SubSeq(s, 1, k - 1)
      fp == IF k = 0 THEN <<>> ELSE Drop(s, k)
  IN IF AllDigits(ip) /\ AllDigits(fp) /\ (ip # <<>> \/ fp # <<>>)
     THEN Normalize(DigitsVal(ip \o fp), Len(fp))
     ELSE NaN

\* Number(value) on strings of decimal digits, sign, point and white space (no exponent,
\* hex or Infinity literals occur in the modelled inputs); Number("") and Number(" ") are 0
Number(value) ==
  LET s == trim(value, <<SP, NL, CR>>) IN
  IF s = <<>> THEN Normalize(0, 0)
  ELSE IF s[1] = "-" THEN Negate(DecimalLiteral(Tail(s)))
  ELSE IF s[1] = "+" THEN DecimalLiteral(Tail(s))
  ELSE DecimalLiteral(s)

\* parseFloat(value): the longest numeric prefix after leading white space
parseFloat(value) ==
  LET s0 == trimLeft(value, <<SP, NL, CR>>)
      neg == s0 # <<>> /\ s0[1] = "-"
      s == IF s0 # <<>> /\ s0[1] \in {"-", "+"} THEN Tail(s0) ELSE s0
      ip == LeadingDigits(s)
      r == Drop(s, Len(ip))
      fp == IF r # <<>> /\ r[1] = "." THEN LeadingDigits(Tail(r)) ELSE <<>>
      v == IF ip = <<>> /\ fp = <<>> THEN NaN ELSE Normalize(DigitsVal(ip \o fp), Len(fp))
  IN IF neg THEN Negate(v) ELSE v

isNaN(v) == v = NaN

parseBool(str) ==
  IF str \in {<<"1">>, <<"t">>, <<"T">>, <<"t", "r", "u", "e">>,
              <<"T", "R", "U", "E">>, <<"T", "r", "u", "e">>} THEN Bool(TRUE)
  ELSE IF str \in {<<"0">>, <<"f">>, <<"F">>, <<"f", "a", "l", "s", "e">>,
                   <<"F", "A", "L", "S", "E">>, <<"F", "a", "l", "s", "e">>} THEN Bool(FALSE)
  ELSE Undefined

RECURSIVE Pow10(_)
Pow10(n) == IF n = 0 THEN 1 ELSE 10 * Pow10(n - 1)

RECURSIVE NatToString(_)
NatToString(n) ==
  IF n < 10 THEN <<Digits[n + 1]>> ELSE NatToString(n \div 10) \o <<Digits[(n % 10) + 1]>>

RECURSIVE PadLeft(_, _)
PadLeft(s, n) == IF Len(s) >= n THEN s ELSE PadLeft(<<"0">> \o s, n)

\* the template-literal string of a stored value
TemplateString(v) ==
  IF v.type = "string" THEN v.s
  ELSE IF v.type = "boolean"
       THEN (IF v.b THEN <<"t", "r", "u", "e">> ELSE <<"f", "a", "l", "s", "e">>)
  ELSE LET a == IF v.m < 0 THEN 0 - v.m ELSE v.m
           ip == NatToString(a \div Pow10(v.s))
           fp == IF v.s = 0 THEN <<>>
                 ELSE <<".">> \o PadLeft(NatToString(a % Pow10(v.s)), v.s)
       IN (IF v.m < 0 THEN <<"-">> ELSE <<>>) \o ip \o fp

\* value != ""  (loose inequality: 0 == "" and false == "" hold in JavaScript)
LooseNotEmpty(v) ==
  IF v.type = "string" THEN v.s # <<>>
  ELSE IF v.type = "boolean" THEN v.b
  ELSE v.m # 0

-----------------------------------------------------------------------------
(* Tokenizer (Papa.parse, external) and CSVReader                          *)

QUOTE == "\""

RECURSIVE ScanCells(_, _, _, _)
\* cells of one line: d is the delimiter character, cur the cell being read,
\* inq whether the scan is inside a quoted field
ScanCells(s, d, cur, inq) ==
  IF s = <<>> THEN <<cur>>
  ELSE IF inq
       THEN (IF s[1] = QUOTE THEN ScanCells(Tail(s), d, cur, FALSE)
             ELSE ScanCells(Tail(s), d, cur \o <<s[1]>>, TRUE))
  ELSE IF s[1] = d THEN <<cur>> \o ScanCells(Tail(s), d, <<>>, FALSE)
  ELSE IF s[1] = QUOTE /\ cur = <<>> THEN ScanCells(Tail(s), d, cur, TRUE)
  ELSE ScanCells(Tail(s), d, cur \o <<s[1]>>, FALSE)

StripCR(line) ==
  IF line # <<>> /\ line[Len(line)] = CR THEN SubSeq(line, 1, Len(line) - 1) ELSE line

RECURSIVE SelectRowsKeepsBlank(_, _)
\* the selection as it would be without skipEmptyLines: only comment lines are dropped
SelectRowsKeepsBlank(lines, comment) ==
  IF lines = <<>> THEN <<>>
  ELSE LET l == StripCR(Head(lines))
           keep == ~(comment # <<>> /\ HasAt(l, comment, 1))
       IN (IF keep THEN <<l>> ELSE <<>>) \o SelectRowsKeepsBlank(Tail(lines), comment)

RECURSIVE SelectRows(_, _)
\* skipEmptyLines: true, and lines that begin with the comment character are dropped
SelectRows(lines, comment) ==
  IF lines = <<>> THEN <<>>
  ELSE LET l == StripCR(Head(lines))
           keep == l # <<>> /\ ~(comment # <<>> /\ HasAt(l, comment, 1))
       IN (IF keep THEN <<l>> ELSE <<>>) \o SelectRows(Tail(lines), comment)

Tokenize(text, delimiter, comment) ==
  LET d == IF delimiter = <<>> THEN "," ELSE delimiter[1]
      rows == SelectRows(Split(text, <<NL>>), comment)
  IN [i \in 1..Len(rows) |-> ScanCells(rows[i], d, <<>>, FALSE)]

RECURSIVE NonEmptyCells(_)
\* data.filter((value) => value != "")
NonEmptyCells(data) ==
  IF data = <<>> THEN <<>>
  ELSE (IF Head(data) # <<>> THEN <<Head(data)>> ELSE <<>>) \o NonEmptyCells(Tail(data))

\* new CSVReader({file, delimiter, comment}).records
CSVReader(file, delimiter, comment) ==
  LET recs == Tokenize(file, delimiter, comment)
  IN [i \in 1..Len(recs) |-> NonEmptyCells(recs[i])]

\* readLine without the end-of-input check: an empty text yields an empty line
readLineNeverEnds(text) ==
  LET lines == Split(text, <<NL>>)
  IN [eof |-> FALSE, line |-> Head(lines), text |-> Join(Tail(lines), <<NL>>)]

\* CSVParser.readLine: the first line and the text with that line removed
readLine(text) ==
  IF text = <<>> THEN [eof |-> TRUE, line |-> <<>>, text |-> <<>>]
  ELSE LET lines == Split(text, <<NL>>)
       IN [eof |-> FALSE, line |-> Head(lines), text |-> Join(Tail(lines), <<NL>>)]

-----------------------------------------------------------------------------
(* Config                                                                  *)

\* the fallback values of the CSVParser constructor
DefaultOptions ==
  [columnNames |-> <<>>, columnTypes |-> <<>>, comment |-> <<>>, defaultTags |-> EmptyMap,
   delimiter |-> <<>>, headerRowCount |-> 0, measurementColumn |-> <<>>, metricName |-> <<>>,
   skipColumns |-> 0, skipRows |-> 0, tagColumns |-> <<>>, timestampColumn |-> <<>>,
   timestampFormat |-> <<>>, timezone |-> <<>>, trimSpace |-> FALSE, skipValues |-> <<>>,
   skipErrors |-> TRUE, metadataRows |-> 0, metadataSeparators |-> <<>>,
   metadataTrimSet |-> <<>>, resetMode |-> ""]

\* the message of the first error of the Config constructor (its backquotes left out)
HeaderRowCountError == "headerRowCount cannot be 0 if columnNames is not specified"

\* the Config constructor as it would be without its first check
ConfigErrorNamesOptional(o) ==
  LET resetMode == IF o.resetMode = "" THEN "none" ELSE o.resetMode IN
  IF Len(o.delimiter) > 1 THEN "delimiter must be a single character"
  ELSE IF Len(o.comment) > 1 THEN "comment must be a single character"
  ELSE IF Len(o.columnNames) # 0 /\ Len(o.columnTypes) # 0
          /\ Len(o.columnNames) # Len(o.columnTypes)
  THEN "columnNames field count doesn't match with columnTypes"
  ELSE IF resetMode \notin {"none", "always"} THEN "unknown reset mode"
  ELSE ""

\* the Config constructor as it would be if it compared the lengths of columnNames and
\* columnTypes also when columnNames is empty
ConfigErrorStrictLengths(o) ==
  LET resetMode == IF o.resetMode = "" THEN "none" ELSE o.resetMode IN
  IF o.headerRowCount = 0 /\ Len(o.columnNames) = 0
  THEN HeaderRowCountError
  ELSE IF Len(o.delimiter) > 1 THEN "delimiter must be a single character"
  ELSE IF Len(o.comment) > 1 THEN "comment must be a single character"
  ELSE IF Len(o.columnTypes) # 0 /\ Len(o.columnNames) # Len(o.columnTypes)
  THEN "columnNames field count doesn't match with columnTypes"
  ELSE IF resetMode \notin {"none", "always"} THEN "unknown reset mode"
  ELSE ""

\* the Config constructor: the error it throws, "" when it returns
ConfigError(o) ==
  LET resetMode == IF o.resetMode = "" THEN "none" ELSE o.resetMode IN
  IF o.headerRowCount = 0 /\ Len(o.columnNames) = 0
  THEN HeaderRowCountError
  ELSE IF Len(o.delimiter) > 1 THEN "delimiter must be a single character"
  ELSE IF Len(o.comment) > 1 THEN "comment must be a single character"
  ELSE IF Len(o.columnNames) # 0 /\ Len(o.columnTypes) # 0
          /\ Len(o.columnNames) # Len(o.columnTypes)
  THEN "columnNames field count doesn't match with columnTypes"
  ELSE IF resetMode \notin {"none", "always"} THEN "unknown reset mode"
  ELSE ""

\* the Config the constructor builds (resetMode || 'none')
NewConfig(o) == [o EXCEPT !.resetMode = IF @ = "" THEN "none" ELSE @]

\* the first loop as it would be if duplicated entries were pushed again
DedupKeepsAll(patterns, seen) == patterns

RECURSIVE Dedup(_, _)
\* the first loop of initializeMetadataSeparator: later duplicates are ignored
Dedup(patterns, seen) ==
  IF patterns = <<>> THEN <<>>
  ELSE IF Head(patterns) \in seen THEN Dedup(Tail(patterns), seen)
  ELSE <<Head(patterns)>> \o Dedup(Tail(patterns), seen \cup {Head(patterns)})

\* the comparator as it would be for ascending lengths
SeparatorBeforeShorter(a, b) == Len(a) < Len(b)

\* comparator of metadataSeparatorList.sort: a goes before b
SeparatorBefore(a, b) == Len(a) > Len(b)

RECURSIVE InsertSorted(_, _)
InsertSorted(sorted, x) ==
  IF sorted = <<>> THEN <<x>>
  ELSE IF SeparatorBefore(x, Head(sorted)) THEN <<x>> \o sorted
  ELSE <<Head(sorted)>> \o InsertSorted(Tail(sorted), x)

RECURSIVE SortSeparators(_, _)
\* Array.prototype.sort is stable: equal lengths keep their order
SortSeparators(list, sorted) ==
  IF list = <<>> THEN sorted ELSE SortSeparators(Tail(list), InsertSorted(sorted, Head(list)))

\* initializeMetadataSeparator as it would be without the test of the separators' number
initializeMetadataSeparatorUnchecked(cfg) ==
  IF cfg.metadataRows <= 0 THEN [err |-> "", list |-> <<>>]
  ELSE [err |-> "", list |-> SortSeparators(Dedup(cfg.metadataSeparators, {}), <<>>)]

\* initializeMetadataSeparator: the error it throws ("" if none) and the list it builds
initializeMetadataSeparator(cfg) ==
  IF cfg.metadataRows <= 0 THEN [err |-> "", list |-> <<>>]
  ELSE IF Len(cfg.metadataSeparators) = 0
  THEN [err |-> "metadataSeparators required when specifying metadataRows", list |-> <<>>]
  ELSE [err |-> "", list |-> SortSeparators(Dedup(cfg.metadataSeparators, {}), <<>>)]

-----------------------------------------------------------------------------
(* The parser instance as one record p (the fields of CSVParser)           *)

\* reset as it would be if it left header-derived column names in place
resetKeepsNames(p) ==
  [p EXCEPT !.gotColumnNames = p.gotInitialColumnNames,
            !.remainingHeaderRows = p.config.headerRowCount,
            !.remainingMetadataRows = p.config.metadataRows,
            !.remainingSkipRows = p.config.skipRows]

\* reset as it would be if it tested gotColumnNames before assigning it
resetTestsOldFlag(p) ==
  [p EXCEPT !.gotColumnNames = p.gotInitialColumnNames,
            !.config.columnNames = IF ~p.gotColumnNames THEN <<>> ELSE @,
            !.remainingHeaderRows = p.config.headerRowCount,
            !.remainingMetadataRows = p.config.metadataRows,
            !.remainingSkipRows = p.config.skipRows]

\* reset as it would be if it emptied metadataTags
resetClearsTags(p) ==
  [p EXCEPT !.gotColumnNames = p.gotInitialColumnNames,
            !.config.columnNames = IF ~p.gotInitialColumnNames THEN <<>> ELSE @,
            !.remainingHeaderRows = p.config.headerRowCount,
            !.remainingMetadataRows = p.config.metadataRows,
            !.remainingSkipRows = p.config.skipRows,
            !.metadataTags = EmptyMap]

\* CSVParser.reset
reset(p) ==
  LET got == p.gotInitialColumnNames IN
  [p EXCEPT !.gotColumnNames = got,
            !.config.columnNames = IF ~got THEN <<>> ELSE @,
            !.remainingHeaderRows = p.config.headerRowCount,
            !.remainingMetadataRows = p.config.metadataRows,
            !.remainingSkipRows = p.config.skipRows]

\* the CSVParser constructor after new Config(...) returned
NewParser(o) ==
  LET cfg == NewConfig(o) IN
  reset([config |-> cfg,
         gotColumnNames |-> FALSE,
         gotInitialColumnNames |-> Len(cfg.columnNames) # 0,
         remainingSkipRows |-> 0,
         remainingHeaderRows |-> 0,
         remainingMetadataRows |-> 0,
         metadataTags |-> EmptyMap,
         metadataSeparatorList |-> initializeMetadataSeparator(cfg).list,
         timeFunc |-> "default"])

\* the error the CSVParser constructor throws, "" when it returns a parser
ConstructorError(o) ==
  IF ConfigError(o) # "" THEN ConfigError(o)
  ELSE initializeMetadataSeparator(NewConfig(o)).err

RECURSIVE MetadataFromSecondPart(_, _, _)
\* the loop as it would be if the value were the second part of the split alone
MetadataFromSecondPart(haystack, needles, trimSet) ==
  IF needles = <<>> THEN EmptyMap
  ELSE LET needle == Head(needles)
           metadata == Split(haystack, needle)
           key == trim(metadata[1], trimSet)
           value == trim(metadata[2], trimSet)
       IN IF Len(metadata) < 2 THEN MetadataFromSecondPart(haystack, Tail(needles), trimSet)
          ELSE IF key # <<>> THEN Put(EmptyMap, key, value)
          ELSE MetadataFromSecondPart(haystack, Tail(needles), trimSet)

RECURSIVE MetadataFrom(_, _, _)
\* the loop of parseMetadataRow over the separators still to try
MetadataFrom(haystack, needles, trimSet) ==
  IF needles = <<>> THEN EmptyMap
  ELSE LET needle == Head(needles)
           metadata == Split(haystack, needle)
           key == trim(metadata[1], trimSet)
           value == trim(Join(Tail(metadata), needle), trimSet)
       IN IF Len(metadata) < 2 THEN MetadataFrom(haystack, Tail(needles), trimSet)
          ELSE IF key # <<>> THEN Put(EmptyMap, key, value)
          ELSE MetadataFrom(haystack, Tail(needles), trimSet)

\* CSVParser.parseMetadataRow
parseMetadataRow(p, haystack) ==
  MetadataFrom(trimRight(haystack, <<CR, NL>>), p.metadataSeparatorList,
               p.config.metadataTrimSet)

-----------------------------------------------------------------------------
(* parseRecord                                                             *)

\* the order of the checks as it would be with the tag columns tested before the skip values
ColumnRoleTagFirst(cfg, fieldName, value) ==
  IF fieldName \in ToSet(cfg.tagColumns) THEN "tag"
  ELSE IF value \in ToSet(cfg.skipValues) THEN "skip"
  ELSE IF fieldName = cfg.timestampColumn THEN "timestamp"
  ELSE IF Len(cfg.columnTypes) > 0 THEN "declared"
  ELSE "inferred"

\* the order of the checks as it would be with the declared types applied before the tag
\* columns are tested
ColumnRoleDeclaredFirst(cfg, fieldName, value) ==
  IF value \in ToSet(cfg.skipValues) THEN "skip"
  ELSE IF Len(cfg.columnTypes) > 0 THEN "declared"
  ELSE IF fieldName \in ToSet(cfg.tagColumns) THEN "tag"
  ELSE IF fieldName = cfg.timestampColumn THEN "timestamp"
  ELSE "inferred"

\* the order of the checks parseRecord applies to one cell
ColumnRole(cfg, fieldName, value) ==
  IF value \in ToSet(cfg.skipValues) THEN "skip"
  ELSE IF fieldName \in ToSet(cfg.tagColumns) THEN "tag"
  ELSE IF fieldName = cfg.timestampColumn THEN "timestamp"
  ELSE IF Len(cfg.columnTypes) > 0 THEN "declared"
  ELSE "inferred"

\* the switch as it would be if the declared type were ignored and the value inferred
DeclaredValueInferring(type, value) ==
  [err |-> "",
   val |-> IF ~isNaN(Number(value)) THEN Number(value)
           ELSE IF parseBool(value) # Undefined THEN parseBool(value)
           ELSE Str(value)]

\* the switch on columnTypes[i]: the value stored, or the error thrown
DeclaredValue(type, value) ==
  IF type = "int"
  THEN (IF isNaN(Number(value)) THEN [err |-> "Column type: Column is not an integer"]
        ELSE [err |-> "", val |-> Number(value)])
  ELSE IF type = "float"
  THEN (IF isNaN(parseFloat(value)) THEN [err |-> "Column type: Column is not a float"]
        ELSE [err |-> "", val |-> parseFloat(value)])
  ELSE IF type = "bool"
  THEN (IF parseBool(value) = Undefined THEN [err |-> "Column type: Column is not a boolean"]
        ELSE [err |-> "", val |-> parseBool(value)])
  ELSE [err |-> "", val |-> Str(value)]

\* "Attempt type conversions": number, then boolean, else the raw string
InferredValue(value) ==
  IF ~isNaN(Number(value)) THEN Number(value)
  ELSE IF parseBool(value) # Undefined THEN parseBool(value)
  ELSE Str(value)

RECURSIVE ClassifyColumnsUnchecked(_, _, _, _, _)
\* the loop as it would be without the test of i against columnTypes.length: the switch
\* on an undefined type takes its default branch
ClassifyColumnsUnchecked(cfg, record, i, tags, fields) ==
  IF i > Len(cfg.columnNames) THEN [err |-> "", tags |-> tags, fields |-> fields]
  ELSE IF i > Len(record) THEN ClassifyColumnsUnchecked(cfg, record, i + 1, tags, fields)
  ELSE
    LET fieldName == cfg.columnNames[i]
        value == IF cfg.trimSpace THEN trim(record[i], <<SP>>) ELSE record[i]
        role == ColumnRole(cfg, fieldName, value)
    IN IF role = "skip" THEN ClassifyColumnsUnchecked(cfg, record, i + 1, tags, fields)
       ELSE IF role = "tag"
       THEN ClassifyColumnsUnchecked(cfg, record, i + 1, Put(tags, fieldName, value), fields)
       ELSE IF role = "timestamp"
       THEN ClassifyColumnsUnchecked(cfg, record, i + 1, tags,
                                     Put(fields, fieldName, Str(value)))
       ELSE IF role = "declared"
       THEN (IF i > Len(cfg.columnTypes)
             THEN ClassifyColumnsUnchecked(cfg, record, i + 1, tags,
                                           Put(fields, fieldName, Str(value)))
             ELSE LET c == DeclaredValue(cfg.columnTypes[i], value) IN
                  IF c.err # "" THEN [err |-> c.err, tags |-> tags, fields |-> fields]
                  ELSE ClassifyColumnsUnchecked(cfg, record, i + 1, tags,
                                                Put(fields, fieldName, c.val)))
       ELSE ClassifyColumnsUnchecked(cfg, record, i + 1, tags,
                                     Put(fields, fieldName, InferredValue(value)))

RECURSIVE ClassifyColumnsStrict(_, _, _, _, _)
\* the column loop as it would be if a column without a cell were an error
ClassifyColumnsStrict(cfg, record, i, tags, fields) ==
  IF i > Len(cfg.columnNames) THEN [err |-> "", tags |-> tags, fields |-> fields]
  ELSE IF i > Len(record)
  THEN [err |-> "Record has fewer cells than columns", tags |-> tags, fields |-> fields]
  ELSE
    LET fieldName == cfg.columnNames[i]
        value == IF cfg.trimSpace THEN trim(record[i], <<SP>>) ELSE record[i]
        role == ColumnRole(cfg, fieldName, value)
    IN IF role = "skip" THEN ClassifyColumnsStrict(cfg, record, i + 1, tags, fields)
       ELSE IF role = "tag"
       THEN ClassifyColumnsStrict(cfg, record, i + 1, Put(tags, fieldName, value), fields)
       ELSE IF role = "timestamp"
       THEN ClassifyColumnsStrict(cfg, record, i + 1, tags, Put(fields, fieldName, Str(value)))
       ELSE IF role = "declared"
       THEN (IF i > Len(cfg.columnTypes)
             THEN [err |-> "Column type: Column count exceeded", tags |-> tags,
                   fields |-> fields]
             ELSE LET c == DeclaredValue(cfg.columnTypes[i], value) IN
                  IF c.err # "" THEN [err |-> c.err, tags |-> tags, fields |-> fields]
                  ELSE ClassifyColumnsStrict(cfg, record, i + 1, tags,
                                       Put(fields, fieldName, c.val)))
       ELSE ClassifyColumnsStrict(cfg, record, i + 1, tags,
                            Put(fields, fieldName, InferredValue(value)))

RECURSIVE ClassifyColumns(_, _, _, _, _)
\* the loop of parseRecord over columnNames, from column i (1-based) on
ClassifyColumns(cfg, record, i, tags, fields) ==
  IF i > Len(cfg.columnNames) THEN [err |-> "", tags |-> tags, fields |-> fields]
  ELSE IF i > Len(record) THEN ClassifyColumns(cfg, record, i + 1, tags, fields)
  ELSE
    LET fieldName == cfg.columnNames[i]
        value == IF cfg.trimSpace THEN trim(record[i], <<SP>>) ELSE record[i]
        role == ColumnRole(cfg, fieldName, value)
    IN IF role = "skip" THEN ClassifyColumns(cfg, record, i + 1, tags, fields)
       ELSE IF role = "tag"
       THEN ClassifyColumns(cfg, record, i + 1, Put(tags, fieldName, value), fields)
       ELSE IF role = "timestamp"
       THEN ClassifyColumns(cfg, record, i + 1, tags, Put(fields, fieldName, Str(value)))
       ELSE IF role = "declared"
       THEN (IF i > Len(cfg.columnTypes)
             THEN [err |-> "Column type: Column count exceeded", tags |-> tags,
                   fields |-> fields]
             ELSE LET c == DeclaredValue(cfg.columnTypes[i], value) IN
                  IF c.err # "" THEN [err |-> c.err, tags |-> tags, fields |-> fields]
                  ELSE ClassifyColumns(cfg, record, i + 1, tags,
                                       Put(fields, fieldName, c.val)))
       ELSE ClassifyColumns(cfg, record, i + 1, tags,
                            Put(fields, fieldName, InferredValue(value)))

\* ParseTimestamp (dayjs, external): the formatter's result is kept symbolic
ParseTimestamp(timestamp, format, timezone) ==
  [src |-> "formatter", raw |-> timestamp, format |-> format, timezone |-> timezone]

\* parseTimestamp as it would be if the format were tested before the column
parseTimestampFormatFirst(clock, recordFields, timestampColumn, timestampFormat, timezone) ==
  IF timestampFormat = <<>> THEN [err |-> "Timestamp format must be specified"]
  ELSE IF timestampColumn # <<>>
  THEN (IF timestampColumn \notin DOMAIN recordFields
        THEN [err |-> "Timestamp column could not be found"]
        ELSE [err |-> "",
              time |-> ParseTimestamp(recordFields[timestampColumn].s, timestampFormat,
                                      timezone)])
  ELSE [err |-> "", time |-> [src |-> "clock", fn |-> clock]]

\* parseTimestamp: the time of the metric, or the error thrown
parseTimestamp(clock, recordFields, timestampColumn, timestampFormat, timezone) ==
  IF timestampColumn # <<>>
  THEN (IF timestampColumn \notin DOMAIN recordFields
        THEN [err |-> "Timestamp column could not be found"]
        ELSE IF timestampFormat = <<>>
        THEN [err |-> "Timestamp format must be specified"]
        ELSE [err |-> "",
              time |-> ParseTimestamp(recordFields[timestampColumn].s, timestampFormat,
                                      timezone)])
  ELSE [err |-> "", time |-> [src |-> "clock", fn |-> clock]]

\* the test without its first conjunct: measurementValue != undefined && measurementValue != ""
MeasurementExistsUnguarded(cfg, recordFields) ==
  /\ cfg.measurementColumn \in DOMAIN recordFields
  /\ LooseNotEmpty(recordFields[cfg.measurementColumn])

\* measurementColumn && measurementValue != undefined && measurementValue != ""
MeasurementExists(cfg, recordFields) ==
  /\ cfg.measurementColumn # <<>>
  /\ cfg.measurementColumn \in DOMAIN recordFields
  /\ LooseNotEmpty(recordFields[cfg.measurementColumn])

\* the end of parseRecord without the two deletes
RecordMetricKeepsColumns(p, c) ==
  IF c.err # "" THEN [err |-> c.err]
  ELSE Only({IF t.err # "" THEN [err |-> t.err]
             ELSE [err |-> "",
                   metric |->
                     [name |-> IF MeasurementExists(p.config, c.fields)
                               THEN TemplateString(c.fields[p.config.measurementColumn])
                               ELSE p.config.metricName,
                      tags |-> Merge(Merge(c.tags, p.metadataTags), p.config.defaultTags),
                      fields |-> c.fields,
                      time |-> t.time]] :
             t \in {parseTimestamp(p.timeFunc, c.fields, p.config.timestampColumn,
                                   p.config.timestampFormat, p.config.timezone)}})

\* the end of parseRecord with the default tags merged before the metadata tags
RecordMetricDefaultsFirst(p, c) ==
  IF c.err # "" THEN [err |-> c.err]
  ELSE Only({IF t.err # "" THEN [err |-> t.err]
             ELSE [err |-> "",
                   metric |->
                     [name |-> IF MeasurementExists(p.config, c.fields)
                               THEN TemplateString(c.fields[p.config.measurementColumn])
                               ELSE p.config.metricName,
                      tags |-> Merge(Merge(c.tags, p.config.defaultTags), p.metadataTags),
                      fields |-> Del(Del(c.fields, p.config.measurementColumn),
                                     p.config.timestampColumn),
                      time |-> t.time]] :
             t \in {parseTimestamp(p.timeFunc, c.fields, p.config.timestampColumn,
                                   p.config.timestampFormat, p.config.timezone)}})

\* the end of parseRecord: tags merged, name resolved, timestamp parsed, columns deleted
RecordMetric(p, c) ==
  IF c.err # "" THEN [err |-> c.err]
  ELSE Only({IF t.err # "" THEN [err |-> t.err]
             ELSE [err |-> "",
                   metric |->
                     [name |-> IF MeasurementExists(p.config, c.fields)
                               THEN TemplateString(c.fields[p.config.measurementColumn])
                               ELSE p.config.metricName,
                      tags |-> Merge(Merge(c.tags, p.metadataTags), p.config.defaultTags),
                      fields |-> Del(Del(c.fields, p.config.measurementColumn),
                                     p.config.timestampColumn),
                      time |-> t.time]] :
             t \in {parseTimestamp(p.timeFunc, c.fields, p.config.timestampColumn,
                                   p.config.timestampFormat, p.config.timezone)}})

\* CSVParser.parseRecord: the metric built from one record, or the error thrown
parseRecord(p, record) ==
  Only({RecordMetric(p, c) :
        c \in {ClassifyColumns(p.config, Drop(record, p.config.skipColumns), 1,
                               EmptyMap, EmptyMap)}})

-----------------------------------------------------------------------------
(* parseCSV                                                                *)

RECURSIVE SkipPhase(_, _, _)
\* "Skip first rows": n counts the lines consumed by this call
SkipPhase(p, text, n) ==
  IF p.remainingSkipRows > 0
  THEN LET r == readLine(text) IN
       IF r.eof THEN [eof |-> TRUE, p |-> p, text |-> text, n |-> n]
       ELSE SkipPhase([p EXCEPT !.remainingSkipRows = @ - 1], r.text, n + 1)
  ELSE [eof |-> FALSE, p |-> p, text |-> text, n |-> n]

RECURSIVE MetadataPhaseKeepsFirst(_, _, _)
\* the metadata loop as it would be if a key already set kept its value
MetadataPhaseKeepsFirst(p, text, read) ==
  IF p.remainingMetadataRows > 0
  THEN LET r == readLine(text) IN
       IF r.eof THEN [eof |-> TRUE, p |-> p, text |-> text, read |-> read]
       ELSE MetadataPhaseKeepsFirst(
              [p EXCEPT !.remainingMetadataRows = @ - 1,
                        !.metadataTags = Merge(parseMetadataRow(p, r.line), @)],
              r.text, read \o <<r.line>>)
  ELSE [eof |-> FALSE, p |-> p, text |-> text, read |-> read]

RECURSIVE MetadataPhase(_, _, _)
\* "Parse metadata": read holds the lines consumed by this call
MetadataPhase(p, text, read) ==
  IF p.remainingMetadataRows > 0
  THEN LET r == readLine(text) IN
       IF r.eof THEN [eof |-> TRUE, p |-> p, text |-> text, read |-> read]
       ELSE MetadataPhase(
              [p EXCEPT !.remainingMetadataRows = @ - 1,
                        !.metadataTags = Merge(@, parseMetadataRow(p, r.line))],
              r.text, read \o <<r.line>>)
  ELSE [eof |-> FALSE, p |-> p, text |-> text, read |-> read]

RECURSIVE ConcatHeaderOverwrites(_, _, _, _)
\* the header loop as it would be if it assigned the cell instead of appending it
ConcatHeaderOverwrites(columnNames, headers, i, trimSpace) ==
  IF i > Len(headers) THEN columnNames
  ELSE LET name == IF trimSpace THEN trim(headers[i], <<SP>>) ELSE headers[i] IN
       IF Len(columnNames) <= i - 1
       THEN ConcatHeaderOverwrites(Append(columnNames, name), headers, i + 1, trimSpace)
       ELSE ConcatHeaderOverwrites([columnNames EXCEPT ![i] = name], headers, i + 1,
                                   trimSpace)

RECURSIVE ConcatHeader(_, _, _, _)
\* "Concatenate header names": the loop over headers.entries(), from cell i (1-based) on
ConcatHeader(columnNames, headers, i, trimSpace) ==
  IF i > Len(headers) THEN columnNames
  ELSE LET name == IF trimSpace THEN trim(headers[i], <<SP>>) ELSE headers[i] IN
       IF Len(columnNames) <= i - 1
       THEN ConcatHeader(Append(columnNames, name), headers, i + 1, trimSpace)
       ELSE ConcatHeader([columnNames EXCEPT ![i] = @ \o name], headers, i + 1, trimSpace)

RECURSIVE HeaderPhaseAlwaysConcats(_, _, _)
\* the header loop as it would be without "if (this.gotColumnNames) continue"
HeaderPhaseAlwaysConcats(p, records, read) ==
  IF p.remainingHeaderRows > 0
  THEN IF records = <<>> THEN [eof |-> TRUE, p |-> p, records |-> records, read |-> read]
       ELSE LET headers == Head(records)
                p2 == [p EXCEPT !.remainingHeaderRows = @ - 1,
                                !.config.columnNames =
                                   ConcatHeader(@, headers, 1, p.config.trimSpace)]
            IN HeaderPhaseAlwaysConcats(p2, Tail(records), read \o <<headers>>)
  ELSE [eof |-> FALSE, p |-> p, records |-> records, read |-> read]

RECURSIVE HeaderPhaseStartsOver(_, _, _)
\* the header loop as it would be if running out of records forgot the header rows read
HeaderPhaseStartsOver(p, records, read) ==
  IF p.remainingHeaderRows > 0
  THEN IF records = <<>>
       THEN [eof |-> TRUE,
             p |-> [p EXCEPT !.remainingHeaderRows = p.config.headerRowCount,
                             !.config.columnNames = IF p.gotColumnNames THEN @ ELSE <<>>],
             records |-> records, read |-> read]
       ELSE LET headers == Head(records)
                p1 == [p EXCEPT !.remainingHeaderRows = @ - 1]
                p2 == IF p.gotColumnNames THEN p1
                      ELSE [p1 EXCEPT !.config.columnNames =
                                         ConcatHeader(@, headers, 1, p.config.trimSpace)]
            IN HeaderPhaseStartsOver(p2, Tail(records), read \o <<headers>>)
  ELSE [eof |-> FALSE, p |-> p, records |-> records, read |-> read]

RECURSIVE HeaderPhase(_, _, _)
\* the header loop over csvReader.read(): read holds the records consumed by this call
HeaderPhase(p, records, read) ==
  IF p.remainingHeaderRows > 0
  THEN IF records = <<>> THEN [eof |-> TRUE, p |-> p, records |-> records, read |-> read]
       ELSE LET headers == Head(records)
                p1 == [p EXCEPT !.remainingHeaderRows = @ - 1]
                p2 == IF p.gotColumnNames THEN p1
                      ELSE [p1 EXCEPT !.config.columnNames =
                                         ConcatHeader(@, headers, 1, p.config.trimSpace)]
            IN HeaderPhase(p2, Tail(records), read \o <<headers>>)
  ELSE [eof |-> FALSE, p |-> p, records |-> records, read |-> read]

\* the slice as it would be outside "if (!this.gotColumnNames)": made by every call
FreezeColumnNamesEveryCall(p) ==
  [p EXCEPT !.config.columnNames = Drop(@, p.config.skipColumns),
            !.gotColumnNames = TRUE]

\* "if (!this.gotColumnNames)": drop the first skipColumns names, once
FreezeColumnNames(p) ==
  IF ~p.gotColumnNames
  THEN [p EXCEPT !.config.columnNames = Drop(@, p.config.skipColumns),
                 !.gotColumnNames = TRUE]
  ELSE p

RECURSIVE RecordLoopStopsAtError(_, _, _)
\* the loop as it would be if a skipped error ended it
RecordLoopStopsAtError(p, outcomes, metrics) ==
  IF outcomes = <<>> THEN [err |-> "", metrics |-> metrics]
  ELSE IF Head(outcomes).err = ""
  THEN RecordLoopStopsAtError(p, Tail(outcomes), Append(metrics, Head(outcomes).metric))
  ELSE IF p.config.skipErrors THEN [err |-> "", metrics |-> metrics]
  ELSE [err |-> Head(outcomes).err, metrics |-> <<>>]

RECURSIVE RecordLoopTimestampFatal(_, _, _)
\* the loop as it would be if the errors of parseTimestamp were rethrown under skipErrors
RecordLoopTimestampFatal(p, outcomes, metrics) ==
  IF outcomes = <<>> THEN [err |-> "", metrics |-> metrics]
  ELSE IF Head(outcomes).err = ""
  THEN RecordLoopTimestampFatal(p, Tail(outcomes), Append(metrics, Head(outcomes).metric))
  ELSE IF /\ p.config.skipErrors
          /\ Head(outcomes).err \notin {"Timestamp column could not be found",
                                        "Timestamp format must be specified"}
  THEN RecordLoopTimestampFatal(p, Tail(outcomes), metrics)
  ELSE [err |-> Head(outcomes).err, metrics |-> <<>>]

RECURSIVE RecordLoop(_, _, _)
\* the loop over records: the metrics pushed so far, or the error rethrown
RecordLoop(p, outcomes, metrics) ==
  IF outcomes = <<>> THEN [err |-> "", metrics |-> metrics]
  ELSE IF Head(outcomes).err = ""
  THEN RecordLoop(p, Tail(outcomes), Append(metrics, Head(outcomes).metric))
  ELSE IF p.config.skipErrors THEN RecordLoop(p, Tail(outcomes), metrics)
  ELSE [err |-> Head(outcomes).err, metrics |-> <<>>]

NoRows == [skipped |-> 0, metadata |-> <<>>, headers |-> <<>>, frozen |-> FALSE,
           records |-> <<>>, outcomes |-> <<>>]

\* parseCSV from the record loop on: q is the parser with its column names frozen
DataPhase(a, b, c, q) ==
  Only({Only({[p |-> q, err |-> r.err, metrics |-> r.metrics,
               rows |-> [skipped |-> a.n, metadata |-> b.read, headers |-> c.read,
                         frozen |-> ~c.p.gotColumnNames,
                         records |-> c.records, outcomes |-> outcomes]] :
              r \in {RecordLoop(q, outcomes, <<>>)}}) :
        outcomes \in {[i \in 1..Len(c.records) |-> parseRecord(q, c.records[i])]}})

\* parseCSV from the header loop on: c is the outcome of the header loop
AfterHeader(a, b, c) ==
  IF c.eof
  THEN [p |-> c.p, err |-> "EOF", metrics |-> <<>>,
        rows |-> [NoRows EXCEPT !.skipped = a.n, !.metadata = b.read, !.headers = c.read]]
  ELSE Only({DataPhase(a, b, c, q) : q \in {FreezeColumnNames(c.p)}})

\* parseCSV from this.compile(localFile) on: b is the outcome of the metadata loop
AfterMetadata(a, b) ==
  IF b.eof
  THEN [p |-> b.p, err |-> "EOF", metrics |-> <<>>,
        rows |-> [NoRows EXCEPT !.skipped = a.n, !.metadata = b.read]]
  ELSE Only({AfterHeader(a, b, c) :
             c \in {HeaderPhase(b.p, CSVReader(b.text, b.p.config.delimiter,
                                               b.p.config.comment), <<>>)}})

\* parseCSV from the metadata loop on: a is the outcome of the skip loop
AfterSkip(a) ==
  IF a.eof
  THEN [p |-> a.p, err |-> "EOF", metrics |-> <<>>, rows |-> [NoRows EXCEPT !.skipped = a.n]]
  ELSE Only({AfterMetadata(a, b) : b \in {MetadataPhase(a.p, a.text, <<>>)}})

\* the Parse Cursor: the part of the parser that reset() restores
Cursor(p) ==
  [remainingSkipRows |-> p.remainingSkipRows,
   remainingMetadataRows |-> p.remainingMetadataRows,
   remainingHeaderRows |-> p.remainingHeaderRows,
   columnNames |-> p.config.columnNames,
   gotColumnNames |-> p.gotColumnNames]

\* CSVParser.parseCSV: the parser afterwards, the error thrown ("" if none), the metrics
\* returned, the rows the call consumed in each phase, and the cursor it was entered with
parseCSV(p, file) ==
  Only({[start |-> Cursor(p)] @@ AfterSkip(a) : a \in {SkipPhase(p, file, 0)}})

\* parse as it would be without the reset of resetMode always
parseWithoutReset(p, file) == parseCSV(p, file)

\* CSVParser.parse
parse(p, file) ==
  parseCSV(IF p.config.resetMode = "always" THEN reset(p) ELSE p, file)

\* parseLine as it would be if the failure on the metric count reset the parser
OneMetricResetsOnFailure(r) ==
  IF r.err # ""
  THEN [p |-> r.p, err |-> r.err, res |-> "error", metrics |-> <<>>, found |-> 0,
        rows |-> r.rows, start |-> r.start]
  ELSE IF Len(r.metrics) = 1
  THEN [p |-> r.p, err |-> "", res |-> "metric", metrics |-> <<r.metrics[1]>>,
        found |-> 1, rows |-> r.rows, start |-> r.start]
  ELSE IF Len(r.metrics) > 1
  THEN [p |-> reset(r.p), err |-> "Expected 1 metric found", res |-> "error",
        metrics |-> <<>>, found |-> Len(r.metrics), rows |-> r.rows, start |-> r.start]
  ELSE [p |-> r.p, err |-> "", res |-> "null", metrics |-> <<>>, found |-> 0,
        rows |-> r.rows, start |-> r.start]

\* parseLine as it would be if it returned the first metric of however many
OneMetricTakesFirst(r) ==
  IF r.err # ""
  THEN [p |-> r.p, err |-> r.err, res |-> "error", metrics |-> <<>>, found |-> 0,
        rows |-> r.rows, start |-> r.start]
  ELSE IF Len(r.metrics) >= 1
  THEN [p |-> r.p, err |-> "", res |-> "metric", metrics |-> <<r.metrics[1]>>,
        found |-> 1, rows |-> r.rows, start |-> r.start]
  ELSE [p |-> r.p, err |-> "", res |-> "null", metrics |-> <<>>, found |-> 0,
        rows |-> r.rows, start |-> r.start]

\* parseLine after parseCSV returned or threw: r is its outcome
OneMetric(r) ==
  IF r.err # ""
  THEN [p |-> r.p, err |-> r.err, res |-> "error", metrics |-> <<>>, found |-> 0,
        rows |-> r.rows, start |-> r.start]
  ELSE IF Len(r.metrics) = 1
  THEN [p |-> r.p, err |-> "", res |-> "metric", metrics |-> <<r.metrics[1]>>,
        found |-> 1, rows |-> r.rows, start |-> r.start]
  ELSE IF Len(r.metrics) > 1
  THEN [p |-> r.p, err |-> "Expected 1 metric found", res |-> "error",
        metrics |-> <<>>, found |-> Len(r.metrics), rows |-> r.rows, start |-> r.start]
  ELSE [p |-> r.p, err |-> "", res |-> "null", metrics |-> <<>>, found |-> 0,
        rows |-> r.rows, start |-> r.start]

\* parseLine as it would be if the empty line used up a metadata row before the skip rows
parseLineMetadataFirst(p, line) ==
  IF line = <<>> /\ p.remainingMetadataRows > 0
  THEN [p |-> [p EXCEPT !.remainingMetadataRows = @ - 1], err |-> "EOF", res |-> "error",
        metrics |-> <<>>, found |-> 0, rows |-> [NoRows EXCEPT !.metadata = <<line>>],
        start |-> Cursor(p)]
  ELSE IF line = <<>> /\ p.remainingSkipRows > 0
  THEN [p |-> [p EXCEPT !.remainingSkipRows = @ - 1], err |-> "EOF", res |-> "error",
        metrics |-> <<>>, found |-> 0, rows |-> [NoRows EXCEPT !.skipped = 1],
        start |-> Cursor(p)]
  ELSE Only({OneMetric(r) : r \in {parseCSV(p, line)}})

\* parseLine as it would be if it caught the end-of-input error and returned null
parseLineCatchesEOF(p, line) ==
  IF line = <<>> /\ p.remainingSkipRows > 0
  THEN [p |-> [p EXCEPT !.remainingSkipRows = @ - 1], err |-> "", res |-> "null",
        metrics |-> <<>>, found |-> 0, rows |-> [NoRows EXCEPT !.skipped = 1],
        start |-> Cursor(p)]
  ELSE IF line = <<>> /\ p.remainingMetadataRows > 0
  THEN [p |-> [p EXCEPT !.remainingMetadataRows = @ - 1], err |-> "", res |-> "null",
        metrics |-> <<>>, found |-> 0, rows |-> [NoRows EXCEPT !.metadata = <<line>>],
        start |-> Cursor(p)]
  ELSE Only({IF r.err = "EOF" THEN [r EXCEPT !.err = "", !.res = "null"] ELSE r :
             r \in {Only({OneMetric(q) : q \in {parseCSV(p, line)}})}})

\* CSVParser.parseLine: res is "metric", "null" or "error"; found is metrics.length
parseLine(p, line) ==
  IF line = <<>> /\ p.remainingSkipRows > 0
  THEN [p |-> [p EXCEPT !.remainingSkipRows = @ - 1], err |-> "EOF", res |-> "error",
        metrics |-> <<>>, found |-> 0, rows |-> [NoRows EXCEPT !.skipped = 1],
        start |-> Cursor(p)]
  ELSE IF line = <<>> /\ p.remainingMetadataRows > 0
  THEN [p |-> [p EXCEPT !.remainingMetadataRows = @ - 1], err |-> "EOF", res |-> "error",
        metrics |-> <<>>, found |-> 0, rows |-> [NoRows EXCEPT !.metadata = <<line>>],
        start |-> Cursor(p)]
  ELSE Only({OneMetric(r) : r \in {parseCSV(p, line)}})

-----------------------------------------------------------------------------
(* The state machine: one parser instance and its caller                   *)

MaxChunkLines == 2

P == [config |-> config,
      gotColumnNames |-> gotColumnNames,
      gotInitialColumnNames |-> gotInitialColumnNames,
      remainingSkipRows |-> remainingSkipRows,
      remainingHeaderRows |-> remainingHeaderRows,
      remainingMetadataRows |-> remainingMetadataRows,
      metadataTags |-> metadataTags,
      metadataSeparatorList |-> metadataSeparatorList,
      timeFunc |-> timeFunc]

SetParser(p) ==
  /\ config' = p.config
  /\ gotColumnNames' = p.gotColumnNames
  /\ gotInitialColumnNames' = p.gotInitialColumnNames
  /\ remainingSkipRows' = p.remainingSkipRows
  /\ remainingHeaderRows' = p.remainingHeaderRows
  /\ remainingMetadataRows' = p.remainingMetadataRows
  /\ metadataTags' = p.metadataTags
  /\ metadataSeparatorList' = p.metadataSeparatorList
  /\ timeFunc' = p.timeFunc

\* chunks of 1..MaxChunkLines lines joined by newlines, and the empty chunk
RECURSIVE LineSeqs(_, _)
LineSeqs(lines, n) ==
  IF n = 0 THEN {<<>>}
  ELSE LET shorter == LineSeqs(lines, n - 1) IN
       shorter \cup {Append(ls, l) : ls \in {x \in shorter : Len(x) = n - 1}, l \in lines}

Chunks(lines) == {Join(ls, <<NL>>) : ls \in LineSeqs(lines, MaxChunkLines)}

NoCall == [op |-> "new", text |-> <<>>, before |-> Cursor(NewParser(DefaultOptions)),
           start |-> Cursor(NewParser(DefaultOptions)),
           err |-> "", res |-> "", metrics |-> <<>>, found |-> 0,
           rows |-> NoRows]

NewCycle == [skipped |-> 0, metadata |-> <<>>, headers |-> <<>>, frozen |-> 0,
             tagsAtReset |-> EmptyMap]

\* the rows of one call added to those of the reset cycle
AddRows(c, rows) ==
  [c EXCEPT !.skipped = @ + rows.skipped,
            !.metadata = @ \o rows.metadata,
            !.headers = @ \o rows.headers,
            !.frozen = @ + (IF rows.frozen THEN 1 ELSE 0)]

NoStream == [active |-> FALSE, lines |-> <<>>, terminated |-> FALSE, pos |-> 0,
             acc |-> <<>>]

\* no instance built: the specifications of one parser keep its state in the variables
NoHeap == [arrays |-> <<>>, maps |-> <<>>, parsers |-> <<>>, alone |-> <<>>, held |-> <<>>,
           calls |-> 0]

InitParser(sc) ==
  /\ scenario = sc
  /\ alive = (ConstructorError(sc.options) = "")
  /\ LET p == NewParser(sc.options) IN
     /\ config = p.config
     /\ gotColumnNames = p.gotColumnNames
     /\ gotInitialColumnNames = p.gotInitialColumnNames
     /\ remainingSkipRows = p.remainingSkipRows
     /\ remainingHeaderRows = p.remainingHeaderRows
     /\ remainingMetadataRows = p.remainingMetadataRows
     /\ metadataTags = p.metadataTags
     /\ metadataSeparatorList = p.metadataSeparatorList
     /\ timeFunc = p.timeFunc
  /\ last = NoCall
  /\ cycle = NewCycle
  /\ heap = NoHeap

\* parser.parse(text)
Parse(text) ==
  /\ alive
  /\ \E r \in {parse(P, text)} :
        /\ SetParser(r.p)
        /\ last' = [op |-> "parse", text |-> text, before |-> Cursor(P),
                    start |-> r.start, err |-> r.err,
                    res |-> IF r.err = "" THEN "metrics" ELSE "error",
                    metrics |-> r.metrics, found |-> Len(r.metrics), rows |-> r.rows]
        /\ cycle' = AddRows(IF config.resetMode = "always"
                            THEN [NewCycle EXCEPT !.tagsAtReset = metadataTags]
                            ELSE cycle, r.rows)
  /\ UNCHANGED <<alive, scenario, stream, heap>>

\* parser.parseLine(line)
ParseLine(line) ==
  /\ alive
  /\ \E r \in {parseLine(P, line)} :
        /\ SetParser(r.p)
        /\ last' = [op |-> "parseLine", text |-> line, before |-> Cursor(P),
                    start |-> r.start,
                    err |-> r.err, res |-> r.res,
                    metrics |-> r.metrics, found |-> r.found, rows |-> r.rows]
        /\ cycle' = AddRows(cycle, r.rows)
  /\ UNCHANGED <<alive, scenario, stream, heap>>

\* parser.reset()
Reset ==
  /\ alive
  /\ SetParser(reset(P))
  /\ last' = [NoCall EXCEPT !.op = "reset", !.before = Cursor(P), !.start = Cursor(P)]
  /\ cycle' = [NewCycle EXCEPT !.tagsAtReset = metadataTags]
  /\ UNCHANGED <<alive, scenario, stream, heap>>

\* parser.setDefaultTags(tags)
SetDefaultTags(tags) ==
  /\ alive
  /\ config' = [config EXCEPT !.defaultTags = tags]
  /\ last' = [NoCall EXCEPT !.op = "setDefaultTags"]
  /\ UNCHANGED <<alive, gotColumnNames, gotInitialColumnNames, remainingSkipRows,
                 remainingHeaderRows, remainingMetadataRows, metadataTags,
                 metadataSeparatorList, timeFunc, cycle, scenario, stream, heap>>

\* parser.setTimeFunc(fn)
SetTimeFunc(fn) ==
  /\ alive
  /\ timeFunc' = fn
  /\ last' = [NoCall EXCEPT !.op = "setTimeFunc"]
  /\ UNCHANGED <<alive, config, gotColumnNames, gotInitialColumnNames, remainingSkipRows,
                 remainingHeaderRows, remainingMetadataRows, metadataTags,
                 metadataSeparatorList, cycle, scenario, stream, heap>>

-----------------------------------------------------------------------------
(* Scenarios: constructor options with the lines of the input they parse   *)

\* two header rows of different lengths, cells with spaces, names from the header
HeaderRows ==
  [name |-> "HeaderRows",
   options |-> [DefaultOptions EXCEPT !.headerRowCount = 2,
                  !.trimSpace = TRUE],
   lines |-> {<<" ", "a", " ", ",", "b">>, <<"1", ",", "2", ",", "3">>, <<"x">>},
   defaultTags |-> {EmptyMap},
   clocks |-> {"default"}]

\* one header row, the first column skipped
SkipColumns ==
  [name |-> "SkipColumns",
   options |-> [DefaultOptions EXCEPT !.headerRowCount = 1,
                  !.skipColumns = 1],
   lines |-> {<<"a", ",", "b", ",", "c">>, <<"1", ",", "2">>, <<"7", ",", "8", ",", "9">>},
   defaultTags |-> {EmptyMap},
   clocks |-> {"default"}]

\* one skip row before one header row
SkipRows ==
  [name |-> "SkipRows",
   options |-> [DefaultOptions EXCEPT !.headerRowCount = 1,
                  !.skipRows = 1],
   lines |-> {<<"g">>, <<"a", ",", "b">>, <<"1", ",", "2">>},
   defaultTags |-> {EmptyMap},
   clocks |-> {"default"}]

\* user-supplied names over a header row, the first column skipped
UserNames ==
  [name |-> "UserNames",
   options |-> [DefaultOptions EXCEPT !.columnNames = <<<<"a">>, <<"b">>>>,
                  !.headerRowCount = 1,
                  !.skipColumns = 1,
                  !.comment = <<"#">>],
   lines |-> {<<"x", ",", "y", ",", "z">>, <<"1", ",", "2", ",", "3">>, <<"#", "c">>},
   defaultTags |-> {EmptyMap},
   clocks |-> {"default"}]

\* resetMode always with a skip row and a header row
AlwaysReset ==
  [name |-> "AlwaysReset",
   options |-> [DefaultOptions EXCEPT !.resetMode = "always",
                  !.skipRows = 1,
                  !.headerRowCount = 1],
   lines |-> {<<"g">>, <<"a", ",", "b">>, <<"1", ",", "2">>},
   defaultTags |-> {EmptyMap},
   clocks |-> {"default"}]

\* one metadata row, user-supplied names
Metadata ==
  [name |-> "Metadata",
   options |-> [DefaultOptions EXCEPT !.columnNames = <<<<"a">>>>,
                  !.metadataRows = 1,
                  !.metadataSeparators = <<<<"=">>, <<":", "=">>>>],
   lines |-> {<<"k", "=", "v">>, <<"j", ":", "=", "w">>, <<"1">>},
   defaultTags |-> {EmptyMap, Put(EmptyMap, <<"k">>, <<"d">>)},
   clocks |-> {"default"}]

\* skip values against a tag column, the timestamp column and an inferred column
SkipValues ==
  [name |-> "SkipValues",
   options |-> [DefaultOptions EXCEPT !.columnNames = <<<<"a">>, <<"b">>, <<"t">>>>,
                  !.tagColumns = <<<<"a">>>>,
                  !.timestampColumn = <<"t">>,
                  !.timestampFormat = <<"u", "n", "i", "x">>,
                  !.skipValues = <<<<"M">>>>,
                  !.trimSpace = TRUE],
   lines |-> {<<"M", ",", "1", ",", "5">>, <<"x", ",", "M", ",", "5">>, <<"x", ",", "1", ",", "M">>, <<"x", ",", " ", "M", ",", "5">>},
   defaultTags |-> {EmptyMap},
   clocks |-> {"default", "fixed"}]

\* declared column types, errors not skipped
DeclaredTypes ==
  [name |-> "DeclaredTypes",
   options |-> [DefaultOptions EXCEPT !.columnNames = <<<<"a">>, <<"b">>>>,
                  !.columnTypes = <<"int", "bool">>,
                  !.skipValues = <<<<"M">>>>,
                  !.skipErrors = FALSE,
                  !.measurementColumn = <<"a">>,
                  !.metricName = <<"m">>],
   lines |-> {<<"M", ",", "t">>, <<"1", ",", "M">>, <<"1", ".", "5", ",", "t">>, <<"x", ",", "1">>},
   defaultTags |-> {EmptyMap},
   clocks |-> {"default"}]

\* two skip rows and a metadata row before the data
SkipAndMetadata ==
  [name |-> "SkipAndMetadata",
   options |-> [DefaultOptions EXCEPT !.columnNames = <<<<"a">>>>,
                  !.skipRows = 2,
                  !.metadataRows = 1,
                  !.metadataSeparators = <<<<"=">>>>],
   lines |-> {<<"g">>, <<"k", "=", "v">>, <<"1">>},
   defaultTags |-> {EmptyMap},
   clocks |-> {"default"}]

\* construction fails: neither header rows nor column names
NoNames ==
  [name |-> "NoNames",
   options |-> DefaultOptions,
   lines |-> {<<"1">>},
   defaultTags |-> {EmptyMap},
   clocks |-> {"default"}]

\* construction fails: metadata rows without separators
NoSeparators ==
  [name |-> "NoSeparators",
   options |-> [DefaultOptions EXCEPT !.columnNames = <<<<"a">>>>,
                  !.metadataRows = 1],
   lines |-> {<<"1">>},
   defaultTags |-> {EmptyMap},
   clocks |-> {"default"}]

\* no timestamp column: the time of a metric is read from the clock
Clock ==
  [name |-> "Clock",
   options |-> [DefaultOptions EXCEPT !.columnNames = <<<<"b">>>>],
   lines |-> {<<"1">>},
   defaultTags |-> {EmptyMap},
   clocks |-> {"default", "fixed"}]

\* a timestamp column whose cell can be skipped, errors not skipped
TimestampStrict ==
  [name |-> "TimestampStrict",
   options |-> [DefaultOptions EXCEPT !.columnNames = <<<<"t">>, <<"b">>>>,
                  !.timestampColumn = <<"t">>,
                  !.timestampFormat = <<"u", "n", "i", "x">>,
                  !.skipValues = <<<<"M">>>>,
                  !.skipErrors = FALSE],
   lines |-> {<<"5", ",", "1">>, <<"M", ",", "1">>},
   defaultTags |-> {EmptyMap},
   clocks |-> {"default"}]

\* a timestamp column without a timestamp format, errors skipped
NoFormat ==
  [name |-> "NoFormat",
   options |-> [DefaultOptions EXCEPT !.columnNames = <<<<"t">>, <<"b">>>>,
                  !.timestampColumn = <<"t">>],
   lines |-> {<<"5", ",", "1">>},
   defaultTags |-> {EmptyMap},
   clocks |-> {"default"}]

\* a timestamp column without a timestamp format, errors not skipped
NoFormatStrict ==
  [name |-> "NoFormatStrict",
   options |-> [DefaultOptions EXCEPT !.columnNames = <<<<"t">>, <<"b">>>>,
                  !.timestampColumn = <<"t">>,
                  !.skipErrors = FALSE],
   lines |-> {<<"5", ",", "1">>},
   defaultTags |-> {EmptyMap},
   clocks |-> {"default"}]

\* a metadata row before the data of every parse call, two values for one key
MetadataReplace ==
  [name |-> "MetadataReplace",
   options |-> [DefaultOptions EXCEPT !.columnNames = <<<<"a">>>>,
                  !.metadataRows = 1,
                  !.metadataSeparators = <<<<"=">>>>,
                  !.resetMode = "always"],
   lines |-> {<<"k", "=", "v">>, <<"k", "=", "u">>, <<"1">>},
   defaultTags |-> {EmptyMap},
   clocks |-> {"default"}]

Scenarios == {HeaderRows,
              SkipColumns,
              SkipRows,
              UserNames,
              AlwaysReset,
              Metadata,
              SkipValues,
              DeclaredTypes,
              SkipAndMetadata,
              NoNames,
              NoSeparators,
              Clock,
              TimestampStrict,
              NoFormat,
              NoFormatStrict,
              MetadataReplace}

Init ==
  /\ \E sc \in Scenarios : InitParser(sc)
  /\ stream = NoStream

Next ==
  \/ \E text \in Chunks(scenario.lines) : Parse(text)
  \/ \E line \in Chunks(scenario.lines) : ParseLine(line)
  \/ Reset
  \/ \E tags \in scenario.defaultTags : SetDefaultTags(tags)
  \/ \E fn \in scenario.clocks : SetTimeFunc(fn)

Spec == Init /\ [][Next]_vars

-----------------------------------------------------------------------------
(* Streaming: one text fed to parse one physical line per call             *)

MaxStreamLines == 5

StreamLines == {<<"k", "=", "1">>, <<"a", ",", "b">>, <<>>}

\* every combination of skip, metadata and header rows the constructor accepts, with the
\* names taken from the header or supplied, with and without a skipped column
StreamOptions ==
  {o \in {[DefaultOptions EXCEPT !.skipRows = s, !.metadataRows = m, !.headerRowCount = h,
                                 !.columnNames = n, !.skipColumns = k,
                                 !.metadataSeparators = <<<<"=">>>>, !.resetMode = "none"] :
            s \in 0..1, m \in 0..1, h \in 0..2, n \in {<<>>, <<<<"x">>, <<"y">>>>}, k \in 0..1} :
     ConstructorError(o) = ""}

\* the lines as the caller sends them: each with its line terminator, the last one
\* without it when the text does not end in a newline
StreamChunk(st, i) ==
  st.lines[i] \o (IF i < Len(st.lines) \/ st.terminated THEN <<NL>> ELSE <<>>)

RECURSIVE StreamText(_, _)
StreamText(st, i) ==
  IF i > Len(st.lines) THEN <<>> ELSE StreamChunk(st, i) \o StreamText(st, i + 1)

InitStream ==
  /\ \E o \in StreamOptions :
       InitParser([name |-> "Stream", options |-> o, lines |-> StreamLines,
                   defaultTags |-> {EmptyMap}, clocks |-> {"default"}])
  /\ \E ls \in LineSeqs(StreamLines, MaxStreamLines) \ {<<>>} :
     \E t \in BOOLEAN :
       /\ t \/ ls[Len(ls)] # <<>>
       /\ stream = [active |-> TRUE, lines |-> ls, terminated |-> t, pos |-> 1,
                    acc |-> <<>>]

\* the next line of the text goes to parser.parse; a call that throws returns no metric
StreamFeed ==
  /\ alive
  /\ stream.active
  /\ stream.pos <= Len(stream.lines)
  /\ \E r \in {parse(P, StreamChunk(stream, stream.pos))} :
       /\ SetParser(r.p)
       /\ stream' = [stream EXCEPT !.pos = @ + 1, !.acc = @ \o r.metrics]
  /\ UNCHANGED <<alive, last, cycle, scenario, heap>>

NextStream == StreamFeed

SpecStream == InitStream /\ [][NextStream]_vars

-----------------------------------------------------------------------------
(* Records: parseRecord applied to one record by a parser in a given state *)

MaxCells == 4

\* a tag column that also has a declared type and is the measurement column
TagTyped ==
  [name |-> "TagTyped",
   options |-> [DefaultOptions EXCEPT !.columnNames = <<<<"a">>, <<"b">>>>,
                  !.tagColumns = <<<<"a">>>>,
                  !.columnTypes = <<"int", "int">>,
                  !.measurementColumn = <<"a">>,
                  !.metricName = <<"m">>],
   prelude |-> <<>>,
   cells |-> {<<"x">>, <<"1">>},
   defaultTags |-> {EmptyMap}]

\* a tag column that is also the timestamp column
TagTimestamp ==
  [name |-> "TagTimestamp",
   options |-> [DefaultOptions EXCEPT !.columnNames = <<<<"a">>, <<"b">>>>,
                  !.tagColumns = <<<<"a">>>>,
                  !.timestampColumn = <<"a">>,
                  !.timestampFormat = <<"u", "n", "i", "x">>],
   prelude |-> <<>>,
   cells |-> {<<"x">>, <<"1">>},
   defaultTags |-> {EmptyMap}]

\* no declared types: every cell is inferred
Inferred ==
  [name |-> "Inferred",
   options |-> [DefaultOptions EXCEPT !.columnNames = <<<<"a">>, <<"b">>>>],
   prelude |-> <<>>,
   cells |-> {<<"4">>, <<"9", ".", "9">>, <<"t", "r", "u", "e">>, <<"h", "i">>,
              <<"3", ",", "4">>, <<"1">>, <<"0">>, <<SP>>},
   defaultTags |-> {EmptyMap}]

\* the four declared types, in the order float, int, bool, string
Declared ==
  [name |-> "Declared",
   options |-> [DefaultOptions EXCEPT
                  !.columnNames = <<<<"f">>, <<"i">>, <<"b">>, <<"s">>>>,
                  !.columnTypes = <<"float", "int", "bool", "string">>],
   prelude |-> <<>>,
   cells |-> {<<"3", ".", "3">>, <<"4">>, <<"t", "r", "u", "e">>, <<"h", "i">>},
   defaultTags |-> {EmptyMap}]

\* one declared type, three names taken from the header row, the second a tag column
TypesShort ==
  [name |-> "TypesShort",
   options |-> [DefaultOptions EXCEPT !.headerRowCount = 1,
                  !.columnTypes = <<"int">>,
                  !.tagColumns = <<<<"b">>>>],
   prelude |-> <<"a", ",", "b", ",", "c">>,
   cells |-> {<<"1">>, <<"x">>},
   defaultTags |-> {EmptyMap}]

\* a measurement column of inferred values
Measurement ==
  [name |-> "Measurement",
   options |-> [DefaultOptions EXCEPT !.columnNames = <<<<"a">>, <<"b">>>>,
                  !.measurementColumn = <<"a">>,
                  !.metricName = <<"m">>],
   prelude |-> <<>>,
   cells |-> {<<"1">>, <<"0">>, <<"1", ".", "5">>, <<"f", "a", "l", "s", "e">>, <<"x">>},
   defaultTags |-> {EmptyMap}]

\* no measurement column, and a column whose name is the empty string
EmptyName ==
  [name |-> "EmptyName",
   options |-> [DefaultOptions EXCEPT !.columnNames = <<<<>>, <<"b">>>>,
                  !.metricName = <<"m">>],
   prelude |-> <<>>,
   cells |-> {<<"1">>, <<"2">>},
   defaultTags |-> {EmptyMap}]

\* two tag columns, a metadata tag and a default tag on the key of the first
TagOverlay ==
  [name |-> "TagOverlay",
   options |-> [DefaultOptions EXCEPT !.columnNames = <<<<"k">>, <<"b">>>>,
                  !.tagColumns = <<<<"k">>, <<"b">>>>,
                  !.metadataRows = 1,
                  !.metadataSeparators = <<<<"=">>>>],
   prelude |-> <<"k", "=", "v", NL>>,
   cells |-> {<<"x">>, <<"1">>},
   defaultTags |-> {EmptyMap, Put(EmptyMap, <<"k">>, <<"d">>),
                    Put(EmptyMap, <<"b">>, <<"e">>)}]

\* the first cell of every record skipped, names of the user
SkipFirst ==
  [name |-> "SkipFirst",
   options |-> [DefaultOptions EXCEPT !.columnNames = <<<<"a">>, <<"b">>>>,
                  !.skipColumns = 1,
                  !.tagColumns = <<<<"b">>>>],
   prelude |-> <<>>,
   cells |-> {<<"x">>, <<"1">>},
   defaultTags |-> {EmptyMap}]

RecordScenarios ==
  {TagTyped, TagTimestamp, Inferred, Declared, TypesShort, Measurement, EmptyName,
   TagOverlay, SkipFirst}

\* the records of up to MaxCells cells
Records(sc) == LineSeqs(sc.cells, MaxCells)

ParserIs(p) ==
  /\ config = p.config
  /\ gotColumnNames = p.gotColumnNames
  /\ gotInitialColumnNames = p.gotInitialColumnNames
  /\ remainingSkipRows = p.remainingSkipRows
  /\ remainingHeaderRows = p.remainingHeaderRows
  /\ remainingMetadataRows = p.remainingMetadataRows
  /\ metadataTags = p.metadataTags
  /\ metadataSeparatorList = p.metadataSeparatorList
  /\ timeFunc = p.timeFunc

\* a parser that has read the header and metadata rows of its scenario, and the record
\* the record loop hands to parseRecord next
InitRecord ==
  /\ \E sc \in RecordScenarios :
       /\ scenario = sc
       /\ \E p \in {IF sc.prelude = <<>> THEN NewParser(sc.options)
                    ELSE parse(NewParser(sc.options), sc.prelude).p} : ParserIs(p)
       /\ \E record \in Records(sc) :
            stream = [NoStream EXCEPT !.lines = <<record>>]
  /\ alive = TRUE
  /\ last = NoCall
  /\ cycle = NewCycle
  /\ heap = NoHeap

\* this.parseRecord(record), as the record loop of parseCSV calls it
ParseRecord ==
  /\ alive
  /\ stream.pos < Len(stream.lines)
  /\ \E record \in {stream.lines[stream.pos + 1]} :
     \E r \in {parseRecord(P, record)} :
       last' = [op |-> "parseRecord", record |-> record, outcome |-> r]
  /\ stream' = [stream EXCEPT !.pos = @ + 1]
  /\ UNCHANGED <<alive, config, gotColumnNames, gotInitialColumnNames, remainingSkipRows,
                 remainingHeaderRows, remainingMetadataRows, metadataTags,
                 metadataSeparatorList, timeFunc, cycle, scenario, heap>>

NextRecord ==
  \/ ParseRecord
  \/ \E tags \in scenario.defaultTags : SetDefaultTags(tags)

SpecRecord == InitRecord /\ [][NextRecord]_vars

-----------------------------------------------------------------------------
(* Metadata rows: one line given to parse by a parser that has read nothing *)

MaxLineLen == 4

\* the separators : and := in that order
ColonFirst ==
  [name |-> "ColonFirst",
   options |-> [DefaultOptions EXCEPT !.columnNames = <<<<"a">>>>,
                  !.metadataRows = 1,
                  !.metadataSeparators = <<<<":">>, <<":", "=">>>>],
   chars |-> {"k", "v", ":", "="}]

\* separators given twice
Duplicates ==
  [name |-> "Duplicates",
   options |-> [DefaultOptions EXCEPT !.columnNames = <<<<"a">>, <<"b">>>>,
                  !.metadataRows = 1,
                  !.metadataSeparators = <<<<",">>, <<"=">>, <<",">>, <<":">>, <<"=">>,
                                           <<":", "=">>>>],
   chars |-> {"k", ",", ":", "="}]

\* four separators and a trim set
TrimSet ==
  [name |-> "TrimSet",
   options |-> [DefaultOptions EXCEPT !.columnNames = <<<<"a">>, <<"b">>>>,
                  !.metadataRows = 1,
                  !.metadataSeparators = <<<<",">>, <<":">>, <<"=">>, <<":", "=">>>>,
                  !.metadataTrimSet = <<" ", "#", "'">>],
   chars |-> {"k", " ", ":", "="}]

\* separators without metadata rows
NoMetadataRows ==
  [name |-> "NoMetadataRows",
   options |-> [DefaultOptions EXCEPT !.columnNames = <<<<"a">>>>,
                  !.metadataSeparators = <<<<":">>, <<":", "=">>>>],
   chars |-> {"k", ":", "="}]

MetadataScenarios == {ColonFirst, Duplicates, TrimSet, NoMetadataRows}

\* the lines of up to MaxLineLen characters
Lines(sc) == LineSeqs(sc.chars, MaxLineLen)

InitMetadata ==
  /\ \E sc \in MetadataScenarios :
       /\ InitParser(sc)
       /\ \E line \in Lines(sc) : stream = [NoStream EXCEPT !.lines = <<line>>]

\* parser.parse(line) on the pending line
ParseMetadata ==
  /\ alive
  /\ stream.pos < Len(stream.lines)
  /\ \E line \in {stream.lines[stream.pos + 1]} : \E r \in {parse(P, line)} :
       /\ SetParser(r.p)
       /\ last' = [op |-> "parse", text |-> line, before |-> Cursor(P),
                   start |-> r.start, err |-> r.err,
                   res |-> IF r.err = "" THEN "metrics" ELSE "error",
                   metrics |-> r.metrics, found |-> Len(r.metrics), rows |-> r.rows]
       /\ cycle' = AddRows(cycle, r.rows)
  /\ stream' = [stream EXCEPT !.pos = @ + 1]
  /\ UNCHANGED <<alive, scenario, heap>>

NextMetadata == ParseMetadata

SpecMetadata == InitMetadata /\ [][NextMetadata]_vars

-----------------------------------------------------------------------------
(* Construction: new CSVParser(options) over a grid of options             *)

ConstructOptions ==
  {[DefaultOptions EXCEPT !.headerRowCount = h, !.columnNames = n, !.columnTypes = t,
                          !.delimiter = d, !.comment = c, !.resetMode = r,
                          !.metadataRows = m[1], !.metadataSeparators = m[2]] :
     h \in 0..1,
     n \in {<<>>, <<<<"a">>>>, <<<<"a">>, <<"b">>>>},
     t \in {<<>>, <<"int">>, <<"int", "int">>},
     d \in {<<>>, <<",">>, <<";", ";">>},
     c \in {<<>>, <<"#">>, <<"#", "#">>},
     r \in {"", "none", "always", "once"},
     m \in {<<0, <<>>>>, <<1, <<>>>>, <<1, <<<<"=">>>>>>}}

InitConstruct ==
  /\ \E o \in ConstructOptions :
       /\ scenario = [name |-> "Construct", options |-> o, lines |-> {<<"1">>},
                      defaultTags |-> {EmptyMap}, clocks |-> {"default"}]
       /\ alive = (ConstructorError(o) = "")
       /\ ParserIs(NewParser(o))
       /\ last = [NoCall EXCEPT !.err = ConstructorError(o),
                                !.res = IF ConstructorError(o) = "" THEN "" ELSE "error"]
  /\ cycle = NewCycle
  /\ stream = NoStream
  /\ heap = NoHeap

NextConstruct == \E text \in Chunks(scenario.lines) : Parse(text)

SpecConstruct == InitConstruct /\ [][NextConstruct]_vars

-----------------------------------------------------------------------------
(* Sharing: two instances built from one options object.  An array or a    *)
(* mapping is an object with an address <<kind, owner, k>>; an instance    *)
(* holds the addresses of config.columnNames, metadataTags and             *)
(* config.defaultTags, and a metric those of its tags and fields.          *)

MaxCalls == 4

Instances == {"first", "second"}

\* the columnNames array and the defaultTags object of the options given to both constructors
OptionsColumnNames == <<"columnNames", "options", 0>>
OptionsDefaultTags == <<"defaultTags", "options", 0>>

\* reset as it would be if it emptied the array it has instead of assigning a new one
NamesAfterResetInPlace(x, names, got) == names

\* reset: "this.config.columnNames = []" assigns a new array unless the names are the user's
NamesAfterReset(x, names, got) == IF ~got THEN <<"columnNames", x, 0>> ELSE names

\* "this.config.columnNames = this.config.columnNames.slice(...)" assigns a new array
NamesAfterSlice(x, names, frozen) == IF frozen THEN <<"columnNames", x, 0>> ELSE names

\* parseRecord as it would be if it filled this.metadataTags instead of a new object
TagsOfRecordAliased(i, x, k) == i.tags

\* parseRecord: "const tags = {}" and "const recordFields = {}" are new objects
TagsOfRecord(i, x, k) == <<"tags", x, k>>
FieldsOfRecord(i, x, k) == <<"fields", x, k>>

\* the parser of instance i with the objects it refers to read from the heap h
Load(h, i) ==
  [i.p EXCEPT !.config.columnNames = h.arrays[i.names],
              !.metadataTags = h.maps[i.tags],
              !.config.defaultTags = h.maps[i.defaults]]

\* the fields of a parser that are not references
Scalars(p) ==
  [p EXCEPT !.config.columnNames = <<>>, !.metadataTags = EmptyMap,
            !.config.defaultTags = EmptyMap]

\* the CSVParser constructor: columnNames and defaultTags are those of the options object,
\* metadataTags is the object of the field initializer, and reset() is called last
NewInstance(x, o) ==
  LET p == NewParser(o) IN
  [p |-> Scalars(p),
   names |-> NamesAfterReset(x, OptionsColumnNames, p.gotInitialColumnNames),
   tags |-> <<"metadataTags", x, 0>>,
   defaults |-> OptionsDefaultTags]

\* the column names as the header loop leaves them in the array it pushes to
NamesBeforeSlice(v, r) ==
  IF r.start.gotColumnNames \/ r.rows.headers = <<>> THEN r.start.columnNames
  ELSE HeaderPhase([v EXCEPT !.config.columnNames = r.start.columnNames,
                             !.gotColumnNames = FALSE,
                             !.remainingHeaderRows = Len(r.rows.headers)],
                   r.rows.headers, <<>>).p.config.columnNames

RECURSIVE WriteMetrics(_, _, _, _, _)
\* the objects parseRecord fills for the metrics from the k-th on
WriteMetrics(maps, i, x, metrics, k) ==
  IF k > Len(metrics) THEN maps
  ELSE WriteMetrics(Put(Put(maps, TagsOfRecord(i, x, k), metrics[k].tags),
                        FieldsOfRecord(i, x, k), metrics[k].fields),
                    i, x, metrics, k + 1)

\* the metrics as the caller holds them: by the addresses of their tags and fields
Handles(i, x, metrics) ==
  [k \in 1..Len(metrics) |->
     [name |-> metrics[k].name, time |-> metrics[k].time,
      tags |-> TagsOfRecord(i, x, k), fields |-> FieldsOfRecord(i, x, k),
      returned |-> metrics[k]]]

\* a held metric read through its addresses
Deref(h, m) ==
  [name |-> m.name, tags |-> h.maps[m.tags], fields |-> h.maps[m.fields], time |-> m.time]

\* the heap after a call of parseCSV on instance x: v is the parser the call began with,
\* r its outcome, names the address of the column names when parseCSV was entered
AfterCall(h, x, v, r, names) ==
  LET i == h.parsers[x]
      sliced == NamesAfterSlice(x, names, r.rows.frozen)
      keep == h.held = <<>> /\ r.metrics # <<>>
      written == Put(h.maps, i.tags, r.p.metadataTags)
  IN [arrays |-> Put(Put(h.arrays, names, NamesBeforeSlice(v, r)),
                     sliced, r.p.config.columnNames),
      maps |-> IF keep THEN WriteMetrics(written, i, x, r.metrics, 1) ELSE written,
      parsers |-> [h.parsers EXCEPT ![x] = [i EXCEPT !.p = Scalars(r.p), !.names = sliced]],
      alone |-> h.alone,
      held |-> IF keep THEN Handles(i, x, r.metrics) ELSE h.held,
      calls |-> h.calls + 1]

\* what the caller of parse or parseLine gets
Outcome(r) == [err |-> r.err, metrics |-> r.metrics]

\* the options both instances are built from: names from one header row, one metadata row
SharedOptions ==
  [name |-> "SharedOptions",
   options |-> [DefaultOptions EXCEPT !.headerRowCount = 1,
                  !.metadataRows = 1,
                  !.metadataSeparators = <<<<"=">>>>],
   lines |-> {<<"k", "=", "v">>, <<"a">>, <<"1">>, <<"1", NL, "a", NL, "1">>},
   defaultTags |-> {[k \in {<<"j">>} |-> <<"d">>]},
   clocks |-> {"default"}]

\* the options both instances are built from: the names of the user, reset by every parse
SharedNames ==
  [name |-> "SharedNames",
   options |-> [DefaultOptions EXCEPT !.columnNames = <<<<"a">>>>,
                  !.metadataRows = 1,
                  !.metadataSeparators = <<<<"=">>>>,
                  !.resetMode = "always"],
   lines |-> {<<"k", "=", "v">>, <<"k", "=", "v", NL, "1">>, <<"1">>},
   defaultTags |-> {[k \in {<<"j">>} |-> <<"d">>]},
   clocks |-> {"default"}]

SharingScenarios == {SharedOptions, SharedNames}

InitSharing ==
  /\ \E sc \in SharingScenarios :
       /\ scenario = sc
       /\ ParserIs(NewParser(sc.options))
       /\ heap = [arrays |-> Put(Put(Put(EmptyMap, OptionsColumnNames,
                                         sc.options.columnNames),
                                     <<"columnNames", "first", 0>>, <<>>),
                                 <<"columnNames", "second", 0>>, <<>>),
                  maps |-> Put(Put(Put(EmptyMap, OptionsDefaultTags,
                                       sc.options.defaultTags),
                                   <<"metadataTags", "first", 0>>, EmptyMap),
                               <<"metadataTags", "second", 0>>, EmptyMap),
                  parsers |-> [x \in Instances |-> NewInstance(x, sc.options)],
                  alone |-> [x \in Instances |-> NewParser(sc.options)],
                  held |-> <<>>,
                  calls |-> 0]
  /\ alive = TRUE
  /\ last = NoCall
  /\ cycle = NewCycle
  /\ stream = NoStream

\* parse(text) on instance x, next to the same call on a parser that runs alone
ParseOn(x, text) ==
  /\ heap.calls < MaxCalls
  /\ \E v \in {Load(heap, heap.parsers[x])} :
     \E r \in {parse(v, text)} :
     \E a \in {parse(heap.alone[x], text)} :
     \E names \in {IF v.config.resetMode = "always"
                   THEN NamesAfterReset(x, heap.parsers[x].names, v.gotInitialColumnNames)
                   ELSE heap.parsers[x].names} :
       /\ heap' = [AfterCall(heap, x, v, r, names) EXCEPT !.alone[x] = a.p]
       /\ last' = [op |-> "parse", instance |-> x, text |-> text,
                   outcome |-> Outcome(r), alone |-> Outcome(a)]
  /\ UNCHANGED <<alive, config, gotColumnNames, gotInitialColumnNames, remainingSkipRows,
                 remainingHeaderRows, remainingMetadataRows, metadataTags,
                 metadataSeparatorList, timeFunc, cycle, scenario, stream>>

\* parseLine(line) on instance x, next to the same call on a parser that runs alone
ParseLineOn(x, line) ==
  /\ heap.calls < MaxCalls
  /\ \E v \in {Load(heap, heap.parsers[x])} :
     \E r \in {parseLine(v, line)} :
     \E a \in {parseLine(heap.alone[x], line)} :
       /\ heap' = [AfterCall(heap, x, v, r, heap.parsers[x].names) EXCEPT !.alone[x] = a.p]
       /\ last' = [op |-> "parseLine", instance |-> x, text |-> line,
                   outcome |-> Outcome(r), alone |-> Outcome(a)]
  /\ UNCHANGED <<alive, config, gotColumnNames, gotInitialColumnNames, remainingSkipRows,
                 remainingHeaderRows, remainingMetadataRows, metadataTags,
                 metadataSeparatorList, timeFunc, cycle, scenario, stream>>

\* reset() on instance x
ResetOn(x) ==
  /\ heap.calls < MaxCalls
  /\ \E v \in {Load(heap, heap.parsers[x])} :
     \E q \in {reset(v)} :
     \E names \in {NamesAfterReset(x, heap.parsers[x].names, v.gotInitialColumnNames)} :
       heap' = [heap EXCEPT !.arrays = Put(@, names, q.config.columnNames),
                            !.parsers[x] = [@ EXCEPT !.p = Scalars(q), !.names = names],
                            !.alone[x] = reset(@),
                            !.calls = @ + 1]
  /\ last' = [op |-> "reset", instance |-> x, text |-> <<>>,
              outcome |-> Outcome(NoCall), alone |-> Outcome(NoCall)]
  /\ UNCHANGED <<alive, config, gotColumnNames, gotInitialColumnNames, remainingSkipRows,
                 remainingHeaderRows, remainingMetadataRows, metadataTags,
                 metadataSeparatorList, timeFunc, cycle, scenario, stream>>

\* setDefaultTags(tags) on instance x: the instance refers to the object it is given
SetDefaultTagsOn(x, tags) ==
  /\ heap.calls < MaxCalls
  /\ heap' = [heap EXCEPT !.maps = Put(@, <<"defaultTags", x, 0>>, tags),
                          !.parsers[x].defaults = <<"defaultTags", x, 0>>,
                          !.alone[x].config.defaultTags = tags,
                          !.calls = @ + 1]
  /\ last' = [op |-> "setDefaultTags", instance |-> x, text |-> <<>>,
              outcome |-> Outcome(NoCall), alone |-> Outcome(NoCall)]
  /\ UNCHANGED <<alive, config, gotColumnNames, gotInitialColumnNames, remainingSkipRows,
                 remainingHeaderRows, remainingMetadataRows, metadataTags,
                 metadataSeparatorList, timeFunc, cycle, scenario, stream>>

NextSharing ==
  \/ \E x \in Instances : \E text \in scenario.lines : ParseOn(x, text)
  \/ \E x \in Instances : \E line \in scenario.lines : ParseLineOn(x, line)
  \/ \E x \in Instances : ResetOn(x)
  \/ \E x \in Instances : \E tags \in scenario.defaultTags : SetDefaultTagsOn(x, tags)

SpecSharing == InitSharing /\ [][NextSharing]_vars

-----------------------------------------------------------------------------
(* Phases: one text of blank lines, comment lines and rows given to parse  *)
(* by a parser that has read nothing                                       *)

MaxPhaseLines == 4

\* zero or one skip row, zero or one metadata row, one or two header rows, comment #
PhaseOptions ==
  {[DefaultOptions EXCEPT !.skipRows = s, !.metadataRows = m, !.headerRowCount = h,
                          !.comment = <<"#">>,
                          !.metadataSeparators = <<<<"=">>>>] :
     s \in 0..1, m \in 0..1, h \in 1..2}

\* a blank line, a comment line and a row
PhaseLines == {<<>>, <<"#", "c">>, <<"a">>}

InitPhases ==
  /\ \E o \in PhaseOptions :
       InitParser([name |-> "Phases", options |-> o, lines |-> PhaseLines,
                   defaultTags |-> {EmptyMap}, clocks |-> {"default"}])
  /\ \E ls \in LineSeqs(PhaseLines, MaxPhaseLines) :
       stream = [NoStream EXCEPT !.lines = <<Join(ls, <<NL>>)>>]

NextPhases == ParseMetadata

SpecPhases == InitPhases /\ [][NextPhases]_vars

-----------------------------------------------------------------------------
(* Properties                                                              *)

StreamDone == stream.active /\ stream.pos > Len(stream.lines)

\* C1: with resetMode none, feeding a text to parse one physical line per call (calls that
\* end with the end-of-input error return nothing) produces the same metrics, in the same
\* order, as one parse call of a fresh parser on the whole text, for every combination of
\* skipRows, metadataRows and headerRowCount.
StreamEqualsBatch ==
  StreamDone =>
    stream.acc = parse(NewParser(scenario.options), StreamText(stream, 1)).metrics

\* a text whose skip row, metadata row and two header rows each took a call of their own,
\* followed by a data row that produced a metric
StreamEqualsBatchWitness ==
  /\ StreamDone
  /\ scenario.options.skipRows = 1
  /\ scenario.options.metadataRows = 1
  /\ scenario.options.headerRowCount = 2
  /\ Len(stream.lines) = 5
  /\ Len(stream.acc) = 1
  /\ metadataTags # EmptyMap

-----------------------------------------------------------------------------
(* Reset mode                                                              *)

\* the cursor c is the one reset() leaves: the three counters at their configured values
\* and, unless the column names were user-supplied, no resolved column names
StartsReset(c) ==
  /\ c.remainingSkipRows = config.skipRows
  /\ c.remainingMetadataRows = config.metadataRows
  /\ c.remainingHeaderRows = config.headerRowCount
  /\ ~gotInitialColumnNames => (c.columnNames = <<>> /\ ~c.gotColumnNames)

\* C2 as stated: with resetMode always, every parse call and every parseLine call begins
\* its chunk with the cursor reset
AlwaysResetsEveryCall ==
  (config.resetMode = "always" /\ last.op \in {"parse", "parseLine"})
    => StartsReset(last.start)

\* C2 as amended: with resetMode always, every parse call begins its chunk with the cursor
\* reset, and every parseLine call begins it with the cursor as the previous call left it
AlwaysResetsParseOnly ==
  config.resetMode = "always" =>
    /\ last.op = "parse" => StartsReset(last.start)
    /\ last.op = "parseLine" => last.start = last.before

\* a parse call that found no skip row left and skipped a row again
AlwaysResetsParseOnlyWitness ==
  /\ config.resetMode = "always"
  /\ last.op = "parse"
  /\ last.before.remainingSkipRows = 0
  /\ last.before.gotColumnNames
  /\ last.rows.skipped = 1

\* C3: after any sequence of calls, reset() leaves the three counters, the resolved column
\* names and the names-resolved flag as they were immediately after construction
ResetRestoresConstruction ==
  last.op = "reset" => Cursor(P) = Cursor(NewParser(scenario.options))

\* a reset after a call that failed between the two header rows, one name row read
ResetRestoresConstructionWitness ==
  /\ last.op = "reset"
  /\ config.headerRowCount = 2
  /\ last.before.remainingHeaderRows = 1
  /\ last.before.columnNames # <<>>
  /\ ~last.before.gotColumnNames

\* C4: in every reachable state, reset() called twice in succession leaves the cursor as
\* one call leaves it
ResetIdempotent ==
  alive => Cursor(reset(reset(P))) = Cursor(reset(P))

\* a state with header-derived names resolved and counters used up, which one reset changes
ResetIdempotentWitness ==
  /\ alive
  /\ gotColumnNames
  /\ ~gotInitialColumnNames
  /\ config.columnNames # <<>>
  /\ remainingSkipRows < config.skipRows
  /\ Cursor(reset(P)) # Cursor(P)

-----------------------------------------------------------------------------
(* Metadata tags across a reset                                            *)

RECURSIVE ExtractedFrom(_, _)
\* the tags the metadata rows in lines yield, later rows overriding earlier ones
ExtractedFrom(p, lines) ==
  IF lines = <<>> THEN EmptyMap
  ELSE Merge(parseMetadataRow(p, Head(lines)), ExtractedFrom(p, Tail(lines)))

\* the keys set after the last reset: by its metadata rows or by a default tag
SetSinceReset == DOMAIN ExtractedFrom(P, cycle.metadata) \cup DOMAIN config.defaultTags

\* C5 as stated: a metric produced after a reset carries no metadata tag that was
\* extracted before that reset
ResetClearsMetadataTags ==
  \A i \in 1..Len(last.metrics) :
    \A k \in DOMAIN cycle.tagsAtReset \ SetSinceReset :
      k \notin DOMAIN last.metrics[i].tags

\* C5 as amended: reset() keeps the accumulated metadata tags, so a metric produced after
\* a reset carries every metadata tag extracted before it, with its value unless a
\* metadata row consumed after the reset or a default tag sets the same key
ResetKeepsMetadataTags ==
  \A i \in 1..Len(last.metrics) :
    \A k \in DOMAIN cycle.tagsAtReset :
      /\ k \in DOMAIN last.metrics[i].tags
      /\ k \notin SetSinceReset => last.metrics[i].tags[k] = cycle.tagsAtReset[k]

\* a metric after a reset whose own metadata row set another key than the one it inherits
ResetKeepsMetadataTagsWitness ==
  /\ last.op = "parse"
  /\ Len(last.metrics) = 1
  /\ cycle.metadata # <<>>
  /\ \E k \in DOMAIN cycle.tagsAtReset \ SetSinceReset :
       last.metrics[1].tags[k] = cycle.tagsAtReset[k]

-----------------------------------------------------------------------------
(* parseLine                                                               *)

\* what a parseLine call that left the outcome l owes to the chunk's outcome r
OwedToChunk(l, r) ==
  IF r.err # "" THEN l.res = "error" /\ l.err = r.err
  ELSE /\ Len(r.metrics) = 1 => (l.res = "metric" /\ l.metrics = r.metrics)
       /\ Len(r.metrics) = 0 => l.res = "null"
       /\ Len(r.metrics) > 1 => /\ l.res = "error"
                                /\ l.err = "Expected 1 metric found"
                                /\ l.found = Len(r.metrics)
       /\ l.res = "metric" => Len(r.metrics) = 1

\* C6: parseLine returns the metric when its chunk yields exactly one, null when it yields
\* none, and fails with an error naming the number found when it yields more than one;
\* it never returns a metric of a chunk that yielded several
ParseLineCardinality ==
  [][last'.op = "parseLine" =>
       \A r \in {parseCSV(P, last'.text)} : OwedToChunk(last', r)]_vars

\* a parseLine call on a chunk of two records, failed with the count 2
ParseLineCardinalityWitness ==
  /\ last.op = "parseLine"
  /\ last.res = "error"
  /\ last.err = "Expected 1 metric found"
  /\ last.found = 2
  /\ Len(last.rows.records) = 2

-----------------------------------------------------------------------------
(* Column names                                                            *)

\* the cell as the header loop takes it
HeaderCell(cell) == IF config.trimSpace THEN trim(cell, <<SP>>) ELSE cell

RECURSIVE NameOfColumn(_, _)
\* cell i of every row of rows that has a cell i, concatenated in row order
NameOfColumn(rows, i) ==
  IF rows = <<>> THEN <<>>
  ELSE (IF Len(Head(rows)) >= i THEN HeaderCell(Head(rows)[i]) ELSE <<>>)
       \o NameOfColumn(Tail(rows), i)

RECURSIVE Widest(_)
Widest(rows) ==
  IF rows = <<>> THEN 0
  ELSE LET w == Widest(Tail(rows)) IN IF Len(Head(rows)) > w THEN Len(Head(rows)) ELSE w

\* the names the header rows give, column by column
NamesOfHeader(rows) == [i \in 1..Widest(rows) |-> NameOfColumn(rows, i)]

\* C7: when column names are not user-supplied, the name of column i is the concatenation,
\* in row order and without separator, of cell i of every header row read since the last
\* reset that has a cell i, each cell trimmed when trimSpace is on (the first skipColumns
\* names are gone once the names are resolved)
HeaderConcatenation ==
  (alive /\ ~gotInitialColumnNames) =>
    config.columnNames = IF gotColumnNames
                         THEN Drop(NamesOfHeader(cycle.headers), config.skipColumns)
                         ELSE NamesOfHeader(cycle.headers)

\* trimmed cells " a " and "b" under "1", "2", "3": the names a1, b2 and 3
HeaderConcatenationWitness ==
  /\ gotColumnNames
  /\ config.trimSpace
  /\ cycle.headers = << << <<SP, "a", SP>>, <<"b">> >>, << <<"1">>, <<"2">>, <<"3">> >> >>
  /\ config.columnNames = << <<"a", "1">>, <<"b", "2">>, <<"3">> >>

Calls == {"parse", "parseLine"}

Min(a, b) == IF a < b THEN a ELSE b

\* the names that get a cell of a record of n cells
NamesPaired(n) ==
  {config.columnNames[j] : j \in 1..Min(Len(config.columnNames), n - config.skipColumns)}

\* every column is an inferred field: no tag, timestamp or measurement column, no declared
\* type, no skip value
PlainColumns ==
  /\ config.tagColumns = <<>>
  /\ config.timestampColumn = <<>>
  /\ config.measurementColumn = <<>>
  /\ config.columnTypes = <<>>
  /\ config.skipValues = <<>>

\* C8: with user-supplied column names and headerRowCount > 0 the header rows are still
\* consumed, first and without yielding a metric, the column names stay the user-supplied
\* list, and the data rows are classified under the user-supplied names
UserNamesOverHeader ==
  (alive /\ gotInitialColumnNames /\ config.headerRowCount > 0) =>
    /\ gotColumnNames
    /\ config.columnNames = scenario.options.columnNames
    /\ Len(cycle.headers) = config.headerRowCount - remainingHeaderRows
    /\ last.op \in Calls =>
         /\ Len(last.rows.headers) <= last.start.remainingHeaderRows
         /\ Len(last.rows.headers) < last.start.remainingHeaderRows
              => (last.rows.records = <<>> /\ last.err = "EOF")
         /\ (config.skipRows = 0 /\ config.metadataRows = 0) =>
              CSVReader(last.text, config.delimiter, config.comment)
                = last.rows.headers \o last.rows.records
         /\ last.found <= Len(last.rows.records)
         /\ \A i \in 1..Len(last.rows.records) :
              last.rows.outcomes[i].err = "" =>
                /\ DOMAIN last.rows.outcomes[i].metric.fields
                     \subseteq ToSet(scenario.options.columnNames)
                /\ PlainColumns =>
                     DOMAIN last.rows.outcomes[i].metric.fields
                       = NamesPaired(Len(last.rows.records[i]))

\* the header row x,y,z went in an earlier call; the row 1,2,3 alone gives a = 2, b = 3
UserNamesOverHeaderWitness ==
  /\ gotInitialColumnNames
  /\ config.headerRowCount = 1
  /\ cycle.headers = << << <<"x">>, <<"y">>, <<"z">> >> >>
  /\ last.op = "parse"
  /\ last.rows.headers = <<>>
  /\ last.rows.records = << << <<"1">>, <<"2">>, <<"3">> >> >>
  /\ Len(last.metrics) = 1
  /\ last.metrics[1].fields = Put(Put(EmptyMap, <<"a">>, [type |-> "number", m |-> 2, s |-> 0]),
                                  <<"b">>, [type |-> "number", m |-> 3, s |-> 0])

\* the cell as parseRecord takes it
RecordCell(cell) == IF config.trimSpace THEN trim(cell, <<SP>>) ELSE cell

\* name j is the last of its name among the names that get a cell of a record of n cells
LastOfName(j, n) ==
  \A j2 \in (j + 1)..Len(config.columnNames) :
    config.columnNames[j2] = config.columnNames[j] => config.skipColumns + j2 > n

\* C9: header-derived names lose their first skipColumns entries exactly once per reset
\* cycle, when the last header row is consumed; user-supplied names are kept as given; and
\* every record loses its first skipColumns cells, so that name j takes its value from
\* cell skipColumns + j
SkipColumnsOnce ==
  alive =>
    /\ gotInitialColumnNames =>
         (cycle.frozen = 0 /\ config.columnNames = scenario.options.columnNames)
    /\ ~gotInitialColumnNames =>
         /\ cycle.frozen = (IF gotColumnNames THEN 1 ELSE 0)
         /\ gotColumnNames =>
              /\ remainingHeaderRows = 0
              /\ Len(cycle.headers) = config.headerRowCount
              /\ config.columnNames = Drop(NamesOfHeader(cycle.headers), config.skipColumns)
    /\ (last.op \in Calls /\ PlainColumns) =>
         \A i \in 1..Len(last.rows.records) :
           LET record == last.rows.records[i]
               outcome == last.rows.outcomes[i]
           IN /\ outcome.err = ""
              /\ DOMAIN outcome.metric.fields = NamesPaired(Len(record))
              /\ \A j \in 1..Len(config.columnNames) :
                   (config.skipColumns + j <= Len(record) /\ LastOfName(j, Len(record))) =>
                     outcome.metric.fields[config.columnNames[j]]
                       = InferredValue(RecordCell(record[config.skipColumns + j]))

\* skipColumns 1 under the header a,b,c: a later call on 7,8,9 alone gives b = 8, c = 9
SkipColumnsOnceWitness ==
  /\ config.skipColumns = 1
  /\ ~gotInitialColumnNames
  /\ cycle.headers = << << <<"a">>, <<"b">>, <<"c">> >> >>
  /\ last.op = "parse"
  /\ last.before.gotColumnNames
  /\ last.rows.records = << << <<"7">>, <<"8">>, <<"9">> >> >>
  /\ Len(last.metrics) = 1
  /\ last.metrics[1].fields = Put(Put(EmptyMap, <<"b">>, [type |-> "number", m |-> 8, s |-> 0]),
                                  <<"c">>, [type |-> "number", m |-> 9, s |-> 0])

-----------------------------------------------------------------------------
(* Skip values                                                             *)

\* column j has a cell in record
HasCell(record, j) == config.skipColumns + j <= Len(record)

\* the cell of column j, as parseRecord takes it
CellOf(record, j) == RecordCell(record[config.skipColumns + j])

\* column j has a cell in record and the cell equals an entry of skipValues
Skipped(record, j) ==
  HasCell(record, j) /\ CellOf(record, j) \in ToSet(config.skipValues)

\* the errors the cells of record that are not skipped can raise, and those of the timestamp
ErrorsOfTheRest(record) ==
  {DeclaredValue(config.columnTypes[j], CellOf(record, j)).err :
     j \in {x \in 1..Min(Len(config.columnNames), Len(config.columnTypes)) :
              HasCell(record, x) /\ ~Skipped(record, x)}}
  \cup (IF \E j \in 1..Len(config.columnNames) :
             HasCell(record, j) /\ ~Skipped(record, j) /\ j > Len(config.columnTypes)
        THEN {"Column type: Column count exceeded"} ELSE {})
  \cup (IF config.timestampColumn # <<>>
        THEN {"Timestamp column could not be found", "Timestamp format must be specified"}
        ELSE {})

\* C10: a cell that equals an entry of skipValues (after trimming when trimSpace is on)
\* gives neither a tag nor a field, whatever the role of its column: no tag for a tag
\* column, no timestamp for the timestamp column, no coercion and so no coercion error
SkipValuesFirst ==
  last.op \in Calls =>
    \A i \in 1..Len(last.rows.records) :
      LET record == last.rows.records[i]
          outcome == last.rows.outcomes[i]
      IN /\ (outcome.err # "" /\ \E j \in 1..Len(config.columnNames) : Skipped(record, j))
              => outcome.err \in ErrorsOfTheRest(record)
         /\ \A j \in 1..Len(config.columnNames) :
              (/\ Skipped(record, j)
               /\ \A j2 \in 1..Len(config.columnNames) :
                    config.columnNames[j2] = config.columnNames[j] => j2 = j) =>
                /\ config.columnNames[j] = config.timestampColumn =>
                     /\ outcome.err # ""
                     /\ config.columnTypes = <<>>
                          => outcome.err = "Timestamp column could not be found"
                /\ outcome.err = "" =>
                     /\ config.columnNames[j] \notin DOMAIN outcome.metric.fields
                     /\ config.columnNames[j] \in DOMAIN outcome.metric.tags
                          => config.columnNames[j]
                               \in DOMAIN metadataTags \cup DOMAIN config.defaultTags

\* the record M,1,5 with the tag column a and the skip value M: b = 1 and no tag
SkipValuesFirstWitness ==
  /\ config.tagColumns = << <<"a">> >>
  /\ config.skipValues = << <<"M">> >>
  /\ last.op = "parse"
  /\ last.rows.records = << << <<"M">>, <<"1">>, <<"5">> >> >>
  /\ Len(last.metrics) = 1
  /\ last.metrics[1].tags = EmptyMap
  /\ last.metrics[1].fields = Put(EmptyMap, <<"b">>, [type |-> "number", m |-> 1, s |-> 0])

-----------------------------------------------------------------------------
(* Tag columns                                                             *)

\* no other column has the name of column j
OnlyOfName(j) ==
  \A j2 \in 1..Len(config.columnNames) :
    config.columnNames[j2] = config.columnNames[j] => j2 = j

\* column j has a cell in record that is not skipped and is neither a tag nor the timestamp
Coerced(record, j) ==
  /\ HasCell(record, j)
  /\ ~Skipped(record, j)
  /\ config.columnNames[j] \notin ToSet(config.tagColumns)
  /\ config.columnNames[j] # config.timestampColumn

\* the errors the coerced cells of record can raise under the declared types
CoercionErrors(record) ==
  IF config.columnTypes = <<>> THEN {}
  ELSE ({DeclaredValue(config.columnTypes[j], CellOf(record, j)).err :
           j \in {x \in 1..Min(Len(config.columnNames), Len(config.columnTypes)) :
                    Coerced(record, x)}} \ {""})
       \cup (IF \E j \in 1..Len(config.columnNames) :
                  Coerced(record, j) /\ j > Len(config.columnTypes)
             THEN {"Column type: Column count exceeded"} ELSE {})

\* C11: the cell of a tag column, unless skipped, is recorded as tags[name], as the string
\* it is, and never as a field: no declared type is applied to it, it is no timestamp
\* when the column is also the timestamp column, and no name when it is also the
\* measurement column
TagColumnsAreTags ==
  last.op = "parseRecord" =>
    \A j \in 1..Len(config.columnNames) :
      LET name == config.columnNames[j] IN
      (/\ name \in ToSet(config.tagColumns)
       /\ HasCell(last.record, j)
       /\ ~Skipped(last.record, j)
       /\ OnlyOfName(j)) =>
        /\ last.outcome.err # "" =>
             last.outcome.err \in CoercionErrors(last.record)
                                    \cup {"Timestamp column could not be found"}
        /\ (name = config.timestampColumn /\ CoercionErrors(last.record) = {}) =>
             last.outcome.err = "Timestamp column could not be found"
        /\ last.outcome.err = "" =>
             /\ name \notin DOMAIN last.outcome.metric.fields
             /\ name \in DOMAIN last.outcome.metric.tags
             /\ name \notin DOMAIN metadataTags \cup DOMAIN config.defaultTags =>
                  last.outcome.metric.tags[name] = CellOf(last.record, j)
             /\ name = config.measurementColumn =>
                  last.outcome.metric.name = config.metricName

\* the record x,1 with the tag column a declared int and named as the measurement column:
\* the tag a = x, the field b = 1 and the configured name m
TagColumnsAreTagsWitness ==
  /\ last.op = "parseRecord"
  /\ config.tagColumns = << <<"a">> >>
  /\ config.columnTypes = <<"int", "int">>
  /\ config.measurementColumn = <<"a">>
  /\ last.record = << <<"x">>, <<"1">> >>
  /\ last.outcome.err = ""
  /\ last.outcome.metric.tags = Put(EmptyMap, <<"a">>, <<"x">>)
  /\ last.outcome.metric.fields = Put(EmptyMap, <<"b">>, [type |-> "number", m |-> 1, s |-> 0])
  /\ last.outcome.metric.name = <<"m">>

-----------------------------------------------------------------------------
(* Type inference and declared types                                       *)

\* s without its sign
Unsigned(s) == IF s # <<>> /\ s[1] \in {"-", "+"} THEN Tail(s) ELSE s

\* an integer literal: an optional sign and one or more decimal digits
IsIntegerLiteral(s) == Unsigned(s) # <<>> /\ AllDigits(Unsigned(s))

\* a float literal: an optional sign and decimal digits around one point
IsFloatLiteral(s) ==
  /\ IndexOf(Unsigned(s), <<".">>, 1) # 0
  /\ DecimalLiteral(Unsigned(s)) # NaN

\* a boolean literal
IsBooleanLiteral(s) == parseBool(s) # Undefined

\* the number an integer or float literal denotes
LiteralValue(s) ==
  IF s[1] = "-" THEN Negate(DecimalLiteral(Unsigned(s))) ELSE DecimalLiteral(Unsigned(s))

\* the first interpretation that succeeds in the order integer, float, boolean, string
FirstInterpretation(cell) ==
  IF IsIntegerLiteral(cell) \/ IsFloatLiteral(cell) THEN LiteralValue(cell)
  ELSE IF IsBooleanLiteral(cell) THEN parseBool(cell)
  ELSE Str(cell)

\* C12: with no declared types, each cell that is not skipped, no tag and no timestamp is
\* stored as its first interpretation in the order integer, float, boolean, raw string;
\* what is none of the first three is stored as the unchanged string
InferenceOrder ==
  (last.op = "parseRecord" /\ config.columnTypes = <<>> /\ last.outcome.err = "") =>
    \A j \in 1..Len(config.columnNames) :
      (/\ Coerced(last.record, j)
       /\ OnlyOfName(j)
       /\ config.columnNames[j] # config.measurementColumn) =>
        /\ config.columnNames[j] \in DOMAIN last.outcome.metric.fields
        /\ last.outcome.metric.fields[config.columnNames[j]]
             = FirstInterpretation(CellOf(last.record, j))

\* cell is a valid literal of the declared type
ValidLiteral(type, cell) ==
  IF type = "int" THEN IsIntegerLiteral(cell)
  ELSE IF type = "float" THEN IsIntegerLiteral(cell) \/ IsFloatLiteral(cell)
  ELSE IF type = "bool" THEN IsBooleanLiteral(cell)
  ELSE TRUE

\* the value of the declared type a valid literal denotes
DeclaredLiteralValue(type, cell) ==
  IF type \in {"int", "float"} THEN LiteralValue(cell)
  ELSE IF type = "bool" THEN parseBool(cell)
  ELSE Str(cell)

\* the coerced columns of record all have a declared type
AllTyped(record) ==
  \A j \in 1..Len(config.columnNames) :
    Coerced(record, j) => j <= Len(config.columnTypes)

\* C13: with columnTypes declared, the type at the column's index decides and nothing is
\* inferred: a record whose cells are all valid literals of their declared types is
\* classified without error, each cell stored as the value of its declared type
DeclaredTypeDecides ==
  (/\ last.op = "parseRecord"
   /\ config.columnTypes # <<>>
   /\ config.timestampColumn = <<>>
   /\ AllTyped(last.record)
   /\ \A j \in 1..Len(config.columnNames) :
        Coerced(last.record, j) =>
          ValidLiteral(config.columnTypes[j], CellOf(last.record, j))) =>
    /\ last.outcome.err = ""
    /\ \A j \in 1..Len(config.columnNames) :
         (/\ Coerced(last.record, j)
          /\ OnlyOfName(j)
          /\ config.columnNames[j] # config.measurementColumn) =>
           /\ config.columnNames[j] \in DOMAIN last.outcome.metric.fields
           /\ last.outcome.metric.fields[config.columnNames[j]]
                = DeclaredLiteralValue(config.columnTypes[j], CellOf(last.record, j))

\* the record 3.3,4,true,hi under float, int, bool, string
DeclaredTypeDecidesWitness ==
  /\ last.op = "parseRecord"
  /\ config.columnTypes = <<"float", "int", "bool", "string">>
  /\ last.record = << <<"3", ".", "3">>, <<"4">>, <<"t", "r", "u", "e">>, <<"h", "i">> >>
  /\ last.outcome.err = ""
  /\ last.outcome.metric.fields
       = Put(Put(Put(Put(EmptyMap, <<"f">>, [type |-> "number", m |-> 33, s |-> 1]),
                     <<"i">>, [type |-> "number", m |-> 4, s |-> 0]),
                 <<"b">>, Bool(TRUE)),
             <<"s">>, Str(<<"h", "i">>))

\* C14: with columnTypes declared, a cell that is not a valid literal of its declared type
\* makes the classification of its record fail with an error, and no field is stored
InvalidLiteralFails ==
  (/\ last.op = "parseRecord"
   /\ config.columnTypes # <<>>
   /\ \E j \in 1..Min(Len(config.columnNames), Len(config.columnTypes)) :
        /\ Coerced(last.record, j)
        /\ ~ValidLiteral(config.columnTypes[j], CellOf(last.record, j))) =>
    last.outcome.err # ""

\* some coerced column of record has its index beyond the declared types
BeyondTypes(record) ==
  \E j \in 1..Len(config.columnNames) : Coerced(record, j) /\ j > Len(config.columnTypes)

\* C15: with columnTypes declared, a column that is not skipped, no tag and no timestamp
\* and whose index is at or beyond the length of the type list makes the record fail;
\* names taken from a header row can be more than the declared types
ColumnCountExceeded ==
  (last.op = "parseRecord" /\ config.columnTypes # <<>>) =>
    /\ BeyondTypes(last.record) =>
         /\ last.outcome.err # ""
         /\ (\A j \in 1..Min(Len(config.columnNames), Len(config.columnTypes)) :
               Coerced(last.record, j) =>
                 ValidLiteral(config.columnTypes[j], CellOf(last.record, j)))
              => last.outcome.err = "Column type: Column count exceeded"
    /\ ~BeyondTypes(last.record) =>
         last.outcome.err # "Column type: Column count exceeded"

\* names a, b, c from the header over the single type int: the record 1,x,1 fails on c,
\* the tag column b having passed
ColumnCountExceededWitness ==
  /\ last.op = "parseRecord"
  /\ ~gotInitialColumnNames
  /\ config.columnNames = << <<"a">>, <<"b">>, <<"c">> >>
  /\ config.columnTypes = <<"int">>
  /\ last.record = << <<"1">>, <<"x">>, <<"1">> >>
  /\ last.outcome.err = "Column type: Column count exceeded"

-----------------------------------------------------------------------------
(* Measurement name and removed columns                                    *)

\* the measurement column is set and column j, of that name, leaves a non-empty field
MeasurementField(record, j) ==
  /\ config.measurementColumn # <<>>
  /\ config.columnNames[j] = config.measurementColumn
  /\ OnlyOfName(j)
  /\ HasCell(record, j)
  /\ ~Skipped(record, j)
  /\ config.columnNames[j] \notin ToSet(config.tagColumns)
  /\ CellOf(record, j) # <<>>

\* the value the field of column j is coerced to
FieldValue(record, j) ==
  IF config.columnNames[j] = config.timestampColumn THEN Str(CellOf(record, j))
  ELSE IF config.columnTypes # <<>>
  THEN DeclaredLiteralValue(config.columnTypes[j], CellOf(record, j))
  ELSE FirstInterpretation(CellOf(record, j))

\* C16: the name of a metric is the string of the measurement column's field whenever the
\* measurement column is set and the record has a non-empty field for it, whatever the
\* type of the value (the number n gives the decimal string of n); in every other case
\* it is metricName
MeasurementName ==
  (last.op = "parseRecord" /\ last.outcome.err = "") =>
    /\ \A j \in 1..Len(config.columnNames) :
         MeasurementField(last.record, j) =>
           last.outcome.metric.name = TemplateString(FieldValue(last.record, j))
    /\ (~\E j \in 1..Len(config.columnNames) : MeasurementField(last.record, j)) =>
         last.outcome.metric.name = config.metricName

\* C17: no metric returned by parse or parseLine has a field under the name of the
\* measurement column or under the name of the timestamp column
ColumnsRemoved ==
  last.op \in Calls =>
    \A i \in 1..Len(last.metrics) :
      /\ config.measurementColumn \notin DOMAIN last.metrics[i].fields
      /\ config.timestampColumn \notin DOMAIN last.metrics[i].fields

\* parse of 1.5,t with the measurement column a: the name 1.5 and the only field b
ColumnsRemovedWitness ==
  /\ last.op = "parse"
  /\ config.measurementColumn = <<"a">>
  /\ last.text = <<"1", ".", "5", ",", "t">>
  /\ Len(last.metrics) = 1
  /\ last.metrics[1].name = <<"1", ".", "5">>
  /\ last.metrics[1].fields = Put(EmptyMap, <<"b">>, Bool(TRUE))

\* C18: with measurementColumn unset (the empty string) the name of every metric is
\* metricName and a column named by the empty string leaves no field, the other columns
\* leaving theirs
EmptyMeasurementColumn ==
  (last.op = "parseRecord" /\ config.measurementColumn = <<>> /\ last.outcome.err = "") =>
    /\ last.outcome.metric.name = config.metricName
    /\ <<>> \notin DOMAIN last.outcome.metric.fields
    /\ \A j \in 1..Len(config.columnNames) :
         (/\ Coerced(last.record, j)
          /\ config.columnNames[j] # <<>>) =>
           config.columnNames[j] \in DOMAIN last.outcome.metric.fields

\* the columns "" and b over the record 1,2: the name m and the only field b = 2
EmptyMeasurementColumnWitness ==
  /\ last.op = "parseRecord"
  /\ config.measurementColumn = <<>>
  /\ config.columnNames = << <<>>, <<"b">> >>
  /\ last.record = << <<"1">>, <<"2">> >>
  /\ last.outcome.err = ""
  /\ last.outcome.metric.name = <<"m">>
  /\ last.outcome.metric.fields = Put(EmptyMap, <<"b">>, [type |-> "number", m |-> 2, s |-> 0])

-----------------------------------------------------------------------------
(* Tags                                                                    *)

\* the tag columns that have a cell of record which is not skipped
TagCells(record) ==
  {j \in 1..Len(config.columnNames) :
     /\ config.columnNames[j] \in ToSet(config.tagColumns)
     /\ HasCell(record, j)
     /\ ~Skipped(record, j)}

\* C19: the tags of a metric are the tags of its tag columns, overlaid by the metadata tags
\* accumulated so far, overlaid by the default tags in force when the record is parsed
\* (those of the last setDefaultTags): on a common key the default tag wins, and the
\* metadata tag wins over the column
TagsOverlaid ==
  (last.op = "parseRecord" /\ last.outcome.err = "") =>
    LET tags == last.outcome.metric.tags IN
    /\ DOMAIN tags = {config.columnNames[j] : j \in TagCells(last.record)}
                       \cup DOMAIN metadataTags \cup DOMAIN config.defaultTags
    /\ \A key \in DOMAIN tags :
         IF key \in DOMAIN config.defaultTags THEN tags[key] = config.defaultTags[key]
         ELSE IF key \in DOMAIN metadataTags THEN tags[key] = metadataTags[key]
         ELSE \A j \in TagCells(last.record) :
                (config.columnNames[j] = key /\ OnlyOfName(j)) =>
                  tags[key] = CellOf(last.record, j)

\* the tag columns k and b over the record x,1 after the metadata row k=v and
\* setDefaultTags({k: d}): the default d on k, the column's 1 on b
TagsOverlaidWitness ==
  /\ last.op = "parseRecord"
  /\ scenario.options.defaultTags = EmptyMap
  /\ config.defaultTags = Put(EmptyMap, <<"k">>, <<"d">>)
  /\ metadataTags = Put(EmptyMap, <<"k">>, <<"v">>)
  /\ last.record = << <<"x">>, <<"1">> >>
  /\ last.outcome.err = ""
  /\ last.outcome.metric.tags = Put(Put(EmptyMap, <<"k">>, <<"d">>), <<"b">>, <<"1">>)

-----------------------------------------------------------------------------
(* Errors of records                                                       *)

RECURSIVE MetricsOf(_)
\* the metrics of the records that did not fail, in the order of the records
MetricsOf(outcomes) ==
  IF outcomes = <<>> THEN <<>>
  ELSE IF Head(outcomes).err = "" THEN <<Head(outcomes).metric>> \o MetricsOf(Tail(outcomes))
  ELSE MetricsOf(Tail(outcomes))

\* the positions of the records that failed
Failed(outcomes) == {i \in 1..Len(outcomes) : outcomes[i].err # ""}

\* C20: with skipErrors a record that fails is dropped and parse returns the metrics of
\* the other records of the chunk in input order; without skipErrors the error of the
\* first failing record is the error of the call and no metric of the chunk is returned
SkipErrorsPolicy ==
  (last.op = "parse" /\ last.rows.records # <<>>) =>
    LET outcomes == last.rows.outcomes IN
    /\ Len(outcomes) = Len(last.rows.records)
    /\ (config.skipErrors \/ Failed(outcomes) = {}) =>
         /\ last.err = ""
         /\ last.metrics = MetricsOf(outcomes)
    /\ (~config.skipErrors /\ Failed(outcomes) # {}) =>
         /\ \E i \in Failed(outcomes) :
              /\ \A i2 \in Failed(outcomes) : i <= i2
              /\ last.err = outcomes[i].err
         /\ last.res = "error"
         /\ last.metrics = <<>>

\* parse of the records x,1,M and M,1,5 with skipErrors: the first has its timestamp cell
\* skipped and fails, the metric of the second is returned
SkipErrorsPolicyWitness ==
  /\ last.op = "parse"
  /\ config.skipErrors
  /\ last.rows.records = << << <<"x">>, <<"1">>, <<"M">> >>, << <<"M">>, <<"1">>, <<"5">> >> >>
  /\ last.rows.outcomes[1].err = "Timestamp column could not be found"
  /\ last.err = ""
  /\ Len(last.metrics) = 1
  /\ last.metrics[1].fields = Put(EmptyMap, <<"b">>, [type |-> "number", m |-> 1, s |-> 0])
  /\ last.metrics[1].tags = EmptyMap

-----------------------------------------------------------------------------
(* Timestamps                                                              *)

\* the errors parseTimestamp throws
TimestampErrors ==
  {"Timestamp column could not be found", "Timestamp format must be specified"}

\* the positions of the records that failed with a timestamp error
FailedTimestamp(outcomes) == {i \in 1..Len(outcomes) : outcomes[i].err \in TimestampErrors}

\* C21 as stated: a timestamp error makes the parse call fail whatever skipErrors is;
\* the record is never dropped with the call going on
TimestampErrorsFatal ==
  (last.op = "parse" /\ FailedTimestamp(last.rows.outcomes) # {}) =>
    /\ last.err \in TimestampErrors
    /\ last.metrics = <<>>

\* C21: a timestamp error is an error of its record like any other: with skipErrors the
\* record is dropped and parse returns the metrics of the other records; only without
\* skipErrors does the call fail, with the error of the first failing record
TimestampErrorsSkipped ==
  (last.op = "parse" /\ FailedTimestamp(last.rows.outcomes) # {}) =>
    LET outcomes == last.rows.outcomes IN
    IF config.skipErrors
    THEN /\ last.err = ""
         /\ last.metrics = MetricsOf(outcomes)
         /\ Len(last.metrics) = Len(outcomes) - Cardinality(Failed(outcomes))
    ELSE /\ last.err # ""
         /\ (\A i \in Failed(outcomes) : i \in FailedTimestamp(outcomes)) =>
              last.err \in TimestampErrors
         /\ last.metrics = <<>>

\* parse of the records M,1,5 and x,1,M with skipErrors: the second fails for want of its
\* timestamp and the call returns the metric of the first
TimestampErrorsSkippedWitness ==
  /\ last.op = "parse"
  /\ config.skipErrors
  /\ last.rows.records = << << <<"M">>, <<"1">>, <<"5">> >>, << <<"x">>, <<"1">>, <<"M">> >> >>
  /\ last.rows.outcomes[2].err = "Timestamp column could not be found"
  /\ last.err = ""
  /\ last.res = "metrics"
  /\ Len(last.metrics) = 1
  /\ last.metrics[1].time.raw = <<"5">>

\* record has a raw value for the timestamp column: a cell that is not skipped, in a column
\* of that name that is no tag column
HasTimestamp(record) ==
  \E j \in 1..Len(config.columnNames) :
    /\ config.columnNames[j] = config.timestampColumn
    /\ HasCell(record, j)
    /\ ~Skipped(record, j)
    /\ config.columnNames[j] \notin ToSet(config.tagColumns)

\* C22: without a timestamp column the time of a metric is what the installed clock
\* returns and the timestamp format is not consulted; with a timestamp column a record
\* without a raw value for it fails, and every record fails when the format is empty
TimestampResolution ==
  last.op \in Calls =>
    \A i \in 1..Len(last.rows.outcomes) :
      LET outcome == last.rows.outcomes[i]
          record == last.rows.records[i]
      IN IF config.timestampColumn = <<>>
         THEN /\ outcome.err \notin TimestampErrors
              /\ outcome.err = "" => outcome.metric.time = [src |-> "clock", fn |-> timeFunc]
         ELSE /\ ~HasTimestamp(record) => outcome.err # ""
              /\ config.timestampFormat = <<>> => outcome.err # ""
              /\ outcome.err = "" => outcome.metric.time.src = "formatter"

\* parse of 1 after setTimeFunc(fixed), no timestamp column and no format: the time is
\* the fixed clock's
TimestampResolutionWitness ==
  /\ last.op = "parse"
  /\ config.timestampColumn = <<>>
  /\ config.timestampFormat = <<>>
  /\ timeFunc = "fixed"
  /\ Len(last.metrics) = 1
  /\ last.metrics[1].time = [src |-> "clock", fn |-> "fixed"]

-----------------------------------------------------------------------------
(* Metadata rows                                                           *)

\* a parse call that consumed its line as the metadata row of a parser with no tags yet
MetadataRowRead ==
  /\ last.op = "parse"
  /\ last.before.remainingMetadataRows = 1
  /\ Len(last.rows.metadata) = 1
  /\ cycle.metadata = last.rows.metadata

\* what precedes and what follows the first occurrence of sep in line
BeforeFirst(line, sep) == SubSeq(line, 1, IndexOf(line, sep, 1) - 1)
AfterFirst(line, sep) == SubSeq(line, IndexOf(line, sep, 1) + Len(sep), Len(line))

\* the configured separators that occur in line and leave a non-empty trimmed key
Candidates(line) ==
  {sep \in ToSet(config.metadataSeparators) :
     /\ IndexOf(line, sep, 1) # 0
     /\ trim(BeforeFirst(line, sep), config.metadataTrimSet) # <<>>}

\* C23: a metadata row is split by the longest configured separator that occurs in it and
\* leaves a non-empty trimmed key; a separator that leaves an empty key is passed over
\* for a shorter one, and a row no separator qualifies for gives no tag and is consumed
LongestSeparator ==
  MetadataRowRead =>
    LET line == last.rows.metadata[1] IN
    /\ remainingMetadataRows = 0
    /\ IF Candidates(line) = {} THEN metadataTags = EmptyMap
       ELSE \E sep \in Candidates(line) :
              /\ \A other \in Candidates(line) : Len(other) <= Len(sep)
              /\ metadataTags = Put(EmptyMap,
                                    trim(BeforeFirst(line, sep), config.metadataTrimSet),
                                    trim(AfterFirst(line, sep), config.metadataTrimSet))

\* the separators : and := over the row k:=v: the key k and the value v
LongestSeparatorWitness ==
  /\ MetadataRowRead
  /\ config.metadataSeparators = << <<":">>, <<":", "=">> >>
  /\ last.rows.metadata = << <<"k", ":", "=", "v">> >>
  /\ metadataTags = Put(EmptyMap, <<"k">>, <<"v">>)
  /\ remainingMetadataRows = 0

\* line is rawKey, then sep, then rawValue, and sep does not begin earlier in line
SplitsAt(line, sep, i) ==
  /\ HasAt(line, sep, i)
  /\ \A j \in 1..(i - 1) : ~HasAt(line, sep, j)

\* C24: the row is split at the first occurrence of the chosen separator only: the key is
\* all that precedes it, the value all that follows it with any further occurrences of
\* the separator, both trimmed with metadataTrimSet
SplitAtFirstOccurrence ==
  (MetadataRowRead /\ metadataTags # EmptyMap) =>
    LET line == last.rows.metadata[1] IN
    \E sep \in ToSet(config.metadataSeparators) : \E i \in 1..Len(line) :
      /\ SplitsAt(line, sep, i)
      /\ metadataTags
           = Put(EmptyMap,
                 trim(SubSeq(line, 1, i - 1), config.metadataTrimSet),
                 trim(SubSeq(line, i + Len(sep), Len(line)), config.metadataTrimSet))

\* the row k:v: with the separator ":": the value v: keeps the second colon
SplitAtFirstOccurrenceWitness ==
  /\ MetadataRowRead
  /\ config.metadataSeparators = << <<":">>, <<":", "=">> >>
  /\ last.rows.metadata = << <<"k", ":", "v", ":">> >>
  /\ metadataTags = Put(EmptyMap, <<"k">>, <<"v", ":">>)

\* C25: the metadata tags are those held at the last reset overlaid, in the order read, by
\* the rows extracted since (a later row of the same key replaces the value and nothing
\* else changes them), and every metric of a call carries each of them, rows extracted
\* by the same call included, unless a default tag has the same key
MetadataTagsPersist ==
  /\ metadataTags = Merge(cycle.tagsAtReset, ExtractedFrom(P, cycle.metadata))
  /\ last.op \in Calls =>
       \A i \in 1..Len(last.metrics) : \A k \in DOMAIN metadataTags :
         /\ k \in DOMAIN last.metrics[i].tags
         /\ k \notin DOMAIN config.defaultTags =>
              last.metrics[i].tags[k] = metadataTags[k]

\* after the row k=v of an earlier call, a call that reads the row k=u and the record 1:
\* its metric carries k = u
MetadataTagsPersistWitness ==
  /\ last.op = "parse"
  /\ cycle.tagsAtReset = Put(EmptyMap, <<"k">>, <<"v">>)
  /\ last.rows.metadata = << <<"k", "=", "u">> >>
  /\ metadataTags = Put(EmptyMap, <<"k">>, <<"u">>)
  /\ Len(last.metrics) = 1
  /\ last.metrics[1].tags = Put(EmptyMap, <<"k">>, <<"u">>)

-----------------------------------------------------------------------------
(* The metadata separator list                                             *)

\* the position of the first entry of list equal to x
RECURSIVE FirstIndex(_, _)
FirstIndex(list, x) == IF Head(list) = x THEN 1 ELSE 1 + FirstIndex(Tail(list), x)

\* list holds each configured separator once
EachOnce(list) ==
  /\ ToSet(list) = ToSet(config.metadataSeparators)
  /\ \A i, j \in 1..Len(list) : list[i] = list[j] => i = j

\* list is ordered by descending length, equal lengths in their configured order
LongerFirst(list) ==
  \A i, j \in 1..Len(list) :
    i < j =>
      /\ Len(list[i]) >= Len(list[j])
      /\ Len(list[i]) = Len(list[j]) =>
           FirstIndex(config.metadataSeparators, list[i])
             < FirstIndex(config.metadataSeparators, list[j])

\* list is ordered by ascending length
ShorterFirst(list) ==
  \A i, j \in 1..Len(list) : i < j => Len(list[i]) <= Len(list[j])

SeparatorListShorterFirst ==
  (alive /\ config.metadataRows > 0) =>
    /\ EachOnce(metadataSeparatorList)
    /\ ShorterFirst(metadataSeparatorList)
    /\ config.metadataSeparators
         = << <<",">>, <<"=">>, <<",">>, <<":">>, <<"=">>, <<":", "=">> >> =>
         metadataSeparatorList = << <<",">>, <<"=">>, <<":">>, <<":", "=">> >>
    /\ config.metadataSeparators = << <<",">>, <<":">>, <<"=">>, <<":", "=">> >> =>
         metadataSeparatorList = << <<",">>, <<":">>, <<"=">>, <<":", "=">> >>

-----------------------------------------------------------------------------
(* Construction                                                            *)

\* a parser that could not be constructed is never called
NeverCalled == ~alive => last.op = "new"

\* C28: construction with headerRowCount = 0 and no column names fails and leaves no
\* parser; with header rows or column names this check passes
NamesRequired ==
  /\ NeverCalled
  /\ last.op = "new" =>
       LET o == scenario.options IN
       IF o.headerRowCount = 0 /\ o.columnNames = <<>>
       THEN ~alive /\ last.res = "error" /\ last.err = HeaderRowCountError
       ELSE last.err # HeaderRowCountError

\* no header rows and no names: the construction has failed
NamesRequiredWitness ==
  /\ last.op = "new"
  /\ scenario.options.headerRowCount = 0
  /\ scenario.options.columnNames = <<>>
  /\ ~alive
  /\ last.err = HeaderRowCountError

\* the invariants of Config that its own constructor tests
ConfigInvariants(o) ==
  /\ o.headerRowCount > 0 \/ o.columnNames # <<>>
  /\ Len(o.delimiter) <= 1
  /\ Len(o.comment) <= 1
  /\ (o.columnNames # <<>> /\ o.columnTypes # <<>>) => Len(o.columnNames) = Len(o.columnTypes)
  /\ o.resetMode \in {"", "none", "always"}

\* C29: construction with metadataRows > 0 and no metadata separators fails, with the
\* error "metadataSeparators required when specifying metadataRows" when the options
\* are valid otherwise; with metadataRows = 0 the empty separator list is accepted
SeparatorsRequired ==
  last.op = "new" =>
    LET o == scenario.options
        error == "metadataSeparators required when specifying metadataRows"
    IN IF o.metadataRows > 0 /\ o.metadataSeparators = <<>>
       THEN /\ ~alive
            /\ last.res = "error"
            /\ ConfigInvariants(o) => last.err = error
       ELSE /\ last.err # error
            /\ (o.metadataRows = 0 /\ ConfigInvariants(o)) => alive

\* a metadata row, no separators and nothing else wrong: the construction has failed
SeparatorsRequiredWitness ==
  /\ last.op = "new"
  /\ scenario.options.metadataRows = 1
  /\ scenario.options.metadataSeparators = <<>>
  /\ ConfigInvariants(scenario.options)
  /\ ~alive
  /\ last.err = "metadataSeparators required when specifying metadataRows"

\* C30: construction fails when the delimiter or the comment is longer than one
\* character, when columnNames and columnTypes are both non-empty and of different
\* lengths, or when resetMode is neither none nor always, an unset resetMode counting as
\* none; it succeeds exactly when no invariant of Config is violated
ConstructionValidates ==
  last.op = "new" =>
    LET o == scenario.options IN
    /\ Len(o.delimiter) > 1 => ~alive
    /\ Len(o.comment) > 1 => ~alive
    /\ (o.columnNames # <<>> /\ o.columnTypes # <<>>
        /\ Len(o.columnNames) # Len(o.columnTypes)) => ~alive
    /\ o.resetMode \notin {"", "none", "always"} => ~alive
    /\ alive <=> (ConfigInvariants(o) /\ (o.metadataRows > 0 => o.metadataSeparators # <<>>))
    /\ alive => config.resetMode = (IF o.resetMode = "" THEN "none" ELSE o.resetMode)
    /\ ~alive <=> last.err # ""

\* a delimiter of two characters with nothing else wrong: the construction has failed
ConstructionValidatesWitness ==
  /\ last.op = "new"
  /\ scenario.options.delimiter = <<";", ";">>
  /\ scenario.options.columnNames = <<<<"a">>, <<"b">>>>
  /\ scenario.options.columnTypes = <<"int", "int">>
  /\ scenario.options.resetMode = ""
  /\ Len(scenario.options.comment) <= 1
  /\ scenario.options.metadataRows = 0
  /\ ~alive
  /\ last.err = "delimiter must be a single character"


-----------------------------------------------------------------------------
\* C31: two parser instances share no mutable state: after any interleaving of
\* parse, parseLine, reset and setDefaultTags calls on the two instances, each
\* instance is in the state it would be in had its calls been run alone, and
\* the last call returned what it would have returned then.
InstancesIndependent ==
  /\ \A x \in Instances : Load(heap, heap.parsers[x]) = heap.alone[x]
  /\ last.op \in Calls => last.outcome = last.alone

\* the second instance returns metrics under names of its own after the first
\* instance resolved other names from its header row
InstancesIndependentWitness ==
  /\ last.op = "parse" /\ last.instance = "second"
  /\ last.outcome.metrics # <<>>
  /\ heap.alone["first"].gotColumnNames
  /\ heap.alone["first"].config.columnNames # heap.alone["second"].config.columnNames

-----------------------------------------------------------------------------
\* the lines readLine can read from a chunk
PhysicalLines(text) ==
  IF text = <<>> THEN <<>>
  ELSE LET lines == Split(text, <<NL>>) IN
       IF lines[Len(lines)] = <<>> THEN SubSeq(lines, 1, Len(lines) - 1) ELSE lines

\* names with the cells of further header rows appended column by column
Accumulated(names, rows) ==
  [i \in 1..(IF Len(names) > Widest(rows) THEN Len(names) ELSE Widest(rows)) |->
     (IF i <= Len(names) THEN names[i] ELSE <<>>) \o NameOfColumn(rows, i)]

\* what a chunk has for a cursor b: skip lines, metadata lines and header records, each
\* counted only when the phase before it was completed
Consumed(b, text) ==
  LET lines == PhysicalLines(text)
      sk == Min(Len(lines), b.remainingSkipRows)
      md == IF sk < b.remainingSkipRows THEN 0
            ELSE Min(Len(lines) - sk, b.remainingMetadataRows)
      recs == CSVReader(Join(Drop(lines, sk + md), <<NL>>), config.delimiter, config.comment)
      hd == IF sk < b.remainingSkipRows \/ md < b.remainingMetadataRows THEN 0
            ELSE Min(Len(recs), b.remainingHeaderRows)
  IN [skip |-> sk, metadata |-> md, header |-> hd, headers |-> SubSeq(recs, 1, hd),
      short |-> \/ sk < b.remainingSkipRows
                \/ md < b.remainingMetadataRows
                \/ hd < b.remainingHeaderRows]

\* C32: with resetMode none, a parse call whose chunk is used up before all header rows
\* owed have been read fails with the end-of-input error and returns nothing, and a chunk
\* that has them all does not fail so; either way each counter is lower by the rows the
\* chunk had for it and, unless the names are the user's, the cells of the header rows it
\* had are appended to the names accumulated by the calls before, which are resolved only
\* when the last header row is read: the next call continues where this one stopped.
HeaderRowsAcrossCalls ==
  (alive /\ last.op = "parse" /\ config.resetMode # "always"
         /\ last.before.remainingHeaderRows > 0) =>
    LET b == last.before
        c == Consumed(b, last.text)
        names == Accumulated(b.columnNames, c.headers)
    IN /\ (last.err = "EOF") <=> c.short
       /\ c.short => last.metrics = <<>>
       /\ remainingSkipRows = b.remainingSkipRows - c.skip
       /\ remainingMetadataRows = b.remainingMetadataRows - c.metadata
       /\ remainingHeaderRows = b.remainingHeaderRows - c.header
       /\ ~gotInitialColumnNames =>
            /\ gotColumnNames = ~c.short
            /\ config.columnNames = IF c.short THEN names
                                    ELSE Drop(names, config.skipColumns)

\* the first of two header rows alone: the call fails, one header row stays owed and the
\* names a and b wait for the cells of the second
HeaderRowsAcrossCallsWitness ==
  /\ last.op = "parse" /\ last.err = "EOF"
  /\ last.before.remainingHeaderRows = 2
  /\ remainingHeaderRows = 1
  /\ ~gotColumnNames
  /\ config.columnNames = << <<"a">>, <<"b">> >>

-----------------------------------------------------------------------------
\* C33 as stated: no parse or parseLine call surfaces the end-of-input error to its
\* caller, in any phase and for any chunk.
EndOfInputNeverSurfaces ==
  (alive /\ last.op \in Calls) => last.err # "EOF"

\* C33: the end-of-input error is not caught: a parse or parseLine call surfaces it
\* exactly when its chunk is used up while skip, metadata or header rows are owed (the
\* empty chunk given to parseLine uses up one skip or metadata row and fails too); a call
\* that begins with the three counters at 0 never surfaces it.
EndOfInputSurfaces ==
  (alive /\ last.op \in Calls) =>
    /\ (last.err = "EOF") <=> Consumed(last.start, last.text).short
    /\ (/\ last.start.remainingSkipRows = 0
        /\ last.start.remainingMetadataRows = 0
        /\ last.start.remainingHeaderRows = 0) => last.err # "EOF"

\* parseLine of the empty chunk uses up a skip row and fails with the end-of-input error
EndOfInputSurfacesWitness ==
  /\ last.op = "parseLine" /\ last.text = <<>>
  /\ last.err = "EOF"
  /\ last.before.remainingSkipRows = 2
  /\ remainingSkipRows = 1

-----------------------------------------------------------------------------
\* each counter between 0 and its configured value, a later phase begun only when the
\* phases before it are over, and records classified only when all three are over
CountersInOrder ==
  alive =>
    /\ remainingSkipRows \in 0..config.skipRows
    /\ remainingMetadataRows \in 0..config.metadataRows
    /\ remainingHeaderRows \in 0..config.headerRowCount
    /\ remainingMetadataRows < config.metadataRows => remainingSkipRows = 0
    /\ remainingHeaderRows < config.headerRowCount =>
         remainingSkipRows = 0 /\ remainingMetadataRows = 0
    /\ (last.op \in Calls /\ (last.rows.records # <<>> \/ last.metrics # <<>>)) =>
         /\ remainingSkipRows = 0
         /\ remainingMetadataRows = 0
         /\ remainingHeaderRows = 0

\* a step other than reset(), or the parse of resetMode always, raises no counter
CountersStep ==
  \/ last'.op = "reset"
  \/ last'.op = "parse" /\ config.resetMode = "always"
  \/ /\ remainingSkipRows' <= remainingSkipRows
     /\ remainingMetadataRows' <= remainingMetadataRows
     /\ remainingHeaderRows' <= remainingHeaderRows

\* C34: in every reachable state each remaining-row counter lies between 0 and its
\* configured value, remainingMetadataRows is below its configured value only while
\* remainingSkipRows is 0, remainingHeaderRows only while both others are 0, records are
\* classified only when all three are 0, and no step but a reset raises a counter.
RowsInOrder == [](CountersInOrder) /\ [][CountersStep]_vars

\* two skip rows were used up by earlier calls; this call read the metadata row and
\* classified a record
RowsInOrderWitness ==
  /\ last.op \in Calls
  /\ config.skipRows = 2
  /\ last.before.remainingSkipRows = 0
  /\ last.before.remainingMetadataRows = 1
  /\ remainingMetadataRows = 0
  /\ last.metrics # <<>>

-----------------------------------------------------------------------------
\* the header phase is over: the three counters are 0 and the column names are resolved
HeaderPhaseOver ==
  /\ alive
  /\ remainingSkipRows = 0 /\ remainingMetadataRows = 0 /\ remainingHeaderRows = 0
  /\ gotColumnNames

\* C35: once the three counters are 0 and the column names are resolved, no call but
\* reset() changes the column names, the counters, the names-resolved flag or the metadata
\* tags when resetMode is none, whether the call succeeds or fails.
ResolvedCursorFrame ==
  [][(HeaderPhaseOver /\ config.resetMode # "always" /\ last'.op # "reset") =>
       /\ config'.columnNames = config.columnNames
       /\ UNCHANGED <<remainingSkipRows, remainingMetadataRows, remainingHeaderRows,
                      gotColumnNames, metadataTags>>]_vars

\* parseLine of two records fails after the names a1, b2 and 3 were resolved from two
\* header rows, and the names and counters are those the call began with
ResolvedCursorFrameWitness ==
  /\ last.op = "parseLine" /\ last.err = "Expected 1 metric found"
  /\ ~gotInitialColumnNames /\ last.before.gotColumnNames
  /\ last.before.remainingHeaderRows = 0
  /\ config.headerRowCount = 2
  /\ config.columnNames = last.before.columnNames
  /\ config.columnNames = << <<"a", "1">>, <<"b", "2">>, <<"3">> >>

-----------------------------------------------------------------------------
\* C36: a metric returned by an earlier call is not changed by any later parse, parseLine,
\* reset or setDefaultTags call on either instance: read through the addresses of its
\* tags and fields it is what it was when it was returned, and those addresses are
\* neither the metadata tags or default tags of a parser nor those of another metric.
MetricsNotAliased ==
  \A k \in 1..Len(heap.held) :
    LET m == heap.held[k] IN
    /\ Deref(heap, m) = m.returned
    /\ \A x \in Instances :
         {m.tags, m.fields} \cap {heap.parsers[x].tags, heap.parsers[x].defaults} = {}
    /\ m.tags # m.fields
    /\ \A j \in 1..Len(heap.held) :
         j # k => {m.tags, m.fields} \cap {heap.held[j].tags, heap.held[j].fields} = {}

\* a metric was returned without tags; after a reset its parser read the metadata row
\* k=v, and a default tag was set
MetricsNotAliasedWitness ==
  /\ heap.held # <<>>
  /\ heap.held[1].returned.tags = EmptyMap
  /\ \E x \in Instances :
       /\ heap.held[1].tags[2] = x
       /\ <<"k">> \in DOMAIN heap.maps[heap.parsers[x].tags]
       /\ <<"j">> \in DOMAIN heap.maps[heap.parsers[x].defaults]

-----------------------------------------------------------------------------
\* the last call was a parseLine that failed on the metric count, begun with the header
\* phase complete, in resetMode none
FailedOnCount ==
  /\ alive /\ config.resetMode # "always"
  /\ last.op = "parseLine" /\ last.err = "Expected 1 metric found"
  /\ last.before.remainingSkipRows = 0
  /\ last.before.remainingMetadataRows = 0
  /\ last.before.remainingHeaderRows = 0
  /\ last.before.gotColumnNames

\* C37: after a parseLine call that failed because its chunk yields more than one metric
\* (resetMode none, header phase complete), parse of the same chunk does not fail and
\* returns the metrics of all the records of the chunk, as many as the failed call
\* counted, under the column names the failed call began with.
UsableAfterCountFailure ==
  FailedOnCount =>
    \A r \in {parse(P, last.text)} :
      /\ r.err = ""
      /\ r.metrics = MetricsOf(last.rows.outcomes)
      /\ Len(r.metrics) = last.found
      /\ r.start.columnNames = last.before.columnNames
      /\ r.p.config.columnNames = last.before.columnNames

\* parseLine of two records failed after the names b and c were resolved from a header
\* row; parse of the same chunk returns two metrics
UsableAfterCountFailureWitness ==
  /\ FailedOnCount
  /\ ~gotInitialColumnNames
  /\ config.skipColumns = 1
  /\ last.found = 2
  /\ Len(parse(P, last.text).metrics) = 2
  /\ DOMAIN parse(P, last.text).metrics[1].fields = {<<"b">>, <<"c">>}

-----------------------------------------------------------------------------
\* C38: parseRecord treats a record with fewer cells (after the first skipColumns are
\* dropped) than there are column names as if the columns without a cell did not exist,
\* and a record with more cells as if the cells beyond the last column name did not:
\* the outcome, metric or error, is the same, so being short raises no error of its own,
\* and the fields and the tags taken from columns are of columns that have a cell.
ShortAndLongRecords ==
  last.op = "parseRecord" =>
    LET cells == Drop(last.record, config.skipColumns)
        n == Min(Len(cells), Len(config.columnNames))
        has == {config.columnNames[j] : j \in 1..n}
        o == last.outcome
    IN /\ o = parseRecord([P EXCEPT !.config.columnNames = SubSeq(@, 1, n)], last.record)
       /\ o = parseRecord(P, SubSeq(last.record, 1,
                                    Min(Len(last.record),
                                        config.skipColumns + Len(config.columnNames))))
       /\ o.err # "Record has fewer cells than columns"
       /\ o.err = "" =>
            /\ DOMAIN o.metric.fields \subseteq has
            /\ DOMAIN o.metric.tags \subseteq
                 (has \cup DOMAIN metadataTags \cup DOMAIN config.defaultTags)

\* the record x,1 with its first cell skipped has a cell for column a only: one field,
\* no tag of the tag column b, no error
ShortAndLongRecordsWitness ==
  /\ last.op = "parseRecord"
  /\ config.skipColumns = 1
  /\ last.record = << <<"x">>, <<"1">> >>
  /\ last.outcome.err = ""
  /\ DOMAIN last.outcome.metric.fields = {<<"a">>}
  /\ last.outcome.metric.tags = EmptyMap

-----------------------------------------------------------------------------
\* a parser new from the options of the scenario, with the default tags and the clock
\* in force and the given metadata tags
NewWith(tags) ==
  [NewParser(scenario.options) EXCEPT !.config.defaultTags = config.defaultTags,
                                      !.timeFunc = timeFunc,
                                      !.metadataTags = tags]

\* C39 as stated: with resetMode always the outcome of parse(text) is that of the same
\* call on a new parser with the same default tags and clock, whatever calls were made
\* before.
HistoryIndependent ==
  (alive /\ last.op = "parse" /\ config.resetMode = "always") =>
    \A r \in {parse(NewWith(EmptyMap), last.text)} :
      last.metrics = r.metrics /\ last.err = r.err

\* C39: with resetMode always the outcome of parse(text) depends on the calls made before
\* only through the metadata tags they left, which reset does not clear: it is that of
\* the same call on a new parser given the same default tags, clock and the metadata
\* tags accumulated before the call.
HistoryOnlyInMetadataTags ==
  (alive /\ last.op = "parse" /\ config.resetMode = "always") =>
    \A r \in {parse(NewWith(cycle.tagsAtReset), last.text)} :
      /\ last.metrics = r.metrics /\ last.err = r.err
      /\ Cursor(P) = Cursor(r.p)
      /\ metadataTags = r.p.metadataTags

\* the metadata row of this chunk has no separator, and its metric carries the tag k = v
\* left by a call before
HistoryOnlyInMetadataTagsWitness ==
  /\ last.op = "parse" /\ config.resetMode = "always"
  /\ last.text = <<"1", NL, "1">>
  /\ cycle.tagsAtReset = Put(EmptyMap, <<"k">>, <<"v">>)
  /\ Len(last.metrics) = 1
  /\ last.metrics[1].tags = Put(EmptyMap, <<"k">>, <<"v">>)

-----------------------------------------------------------------------------
\* a line that is blank or begins with the comment character
BlankOrComment(line) ==
  line = <<>> \/ (config.comment # <<>> /\ HasAt(line, config.comment, 1))

RECURSIVE RowsOf(_)
\* the lines that are neither blank nor comment lines, in order
RowsOf(lines) ==
  IF lines = <<>> THEN <<>>
  ELSE (IF BlankOrComment(Head(lines)) THEN <<>> ELSE <<Head(lines)>>)
       \o RowsOf(Tail(lines))

\* C40: skip rows and metadata rows are counted in physical lines, blank and comment
\* lines included: a parse call uses up as many of them as the chunk has lines, skip rows
\* first.  Header rows are counted in the records of the lines after those: a line that
\* is blank or a comment line uses up no header row and adds nothing to the column
\* names, which are made of the other lines only.
PhysicalLinesThenRecords ==
  (alive /\ last.op = "parse") =>
    LET b == last.before
        lines == PhysicalLines(last.text)
        sk == Min(Len(lines), b.remainingSkipRows)
        md == Min(Len(lines) - sk, b.remainingMetadataRows)
        rows == RowsOf(Drop(lines, sk + md))
        hd == IF md < b.remainingMetadataRows THEN 0
              ELSE Min(Len(rows), b.remainingHeaderRows)
    IN /\ remainingSkipRows = b.remainingSkipRows - sk
       /\ remainingMetadataRows = b.remainingMetadataRows - md
       /\ last.rows.skipped = sk
       /\ last.rows.metadata = SubSeq(lines, sk + 1, sk + md)
       /\ remainingHeaderRows = b.remainingHeaderRows - hd
       /\ last.rows.headers =
            [i \in 1..hd |-> CSVReader(rows[i], config.delimiter, config.comment)[1]]
       /\ config.columnNames = NamesOfHeader(last.rows.headers)

\* a blank line used as the skip row, a comment line used as the metadata row, and a
\* comment line before the header row a that uses up no header row
PhysicalLinesThenRecordsWitness ==
  /\ last.op = "parse" /\ last.err = ""
  /\ last.text = <<NL, "#", "c", NL, "#", "c", NL, "a">>
  /\ last.before.remainingSkipRows = 1
  /\ last.before.remainingMetadataRows = 1
  /\ last.before.remainingHeaderRows = 1
  /\ remainingSkipRows = 0 /\ remainingMetadataRows = 0 /\ remainingHeaderRows = 0
  /\ config.columnNames = << <<"a">> >>

=========================================================================
